---- MODULE Spec2Model ----
(***************************************************************************)
(* Planning-mode state machine, schedule projection and conflict detection *)
(* of the ClassSwitcher frontend (PlanningState, ClassSwitcherApp,         *)
(* conflictDetector, StorageManager).                                      *)
(*                                                                         *)
(* A course is identified by one identifier: the course objects of the     *)
(* data files carry CourseID and CourseCode, and the click handler finds   *)
(* the enrollment entry of an event through CourseID while the projection  *)
(* finds it through CourseCode, so the two name the same key.              *)
(***************************************************************************)
EXTENDS Integers, Sequences, FiniteSets, TLC

VARIABLES
    planningState,   \* the PlanningState object: mode, stagedChanges, visibleCourses, showAlternatives, conflictingEventIds
    enrollment,      \* app.enrollment: course -> (group type -> enrolled group number)
    currentTerm,     \* app.currentTerm
    currentWeek,     \* app.currentWeek
    calendarEvents,  \* the events handed to the calendar by the last loadWeek
    storage,         \* localStorage: mode, planningState (0 or 1 snapshot), enrollmentOverrides
    timeout,         \* the pending timer of the debounced preference save
    last,            \* what the last handler did: its result, prompts and callback invocations
    switchUses,      \* how often the user has operated a sidebar switch so far
    exitPreferences  \* history: <<the preferences in effect when the app last left planning
                     \* mode>>, <<>> before the first exit and once planning mode is entered again

vars == <<planningState, enrollment, currentTerm, currentWeek, calendarEvents, storage, timeout,
          last, switchUses, exitPreferences>>

-----------------------------------------------------------------------------
(* Bounds *)

\* weeks per term explored (CONFIG.TERMS[*].totalWeeks is 11 in the source)
MaxWeek == 2

\* uses of the sidebar switches (visibility, detail mode) by the user in one run
MaxSwitchUses == 2

-----------------------------------------------------------------------------
(* Generic helpers: JS Map / object operations on functions *)

EmptyMap == [k \in {} |-> 0]

MapSet(m, k, v) == [x \in (DOMAIN m) \cup {k} |-> IF x = k THEN v ELSE m[x]]

MapDelete(m, k) == [x \in (DOMAIN m) \ {k} |-> m[x]]

Size(m) == Cardinality(DOMAIN m)

SeqToSet(s) == {s[i] : i \in 1..Len(s)}

\* the array that results from pushing the elements of each of the given arrays in turn
Flatten(ss) ==
    LET arrays == ss \o <<>>
        f[i \in 0..Len(arrays)] == IF i = 0 THEN <<>> ELSE f[i-1] \o arrays[i]
    IN f[Len(arrays)]

-----------------------------------------------------------------------------
(* Reference data: CONFIG.TERMS, courses.json, sessions.json, enrollment.json *)

TERMS == <<"AT", "WT">>

totalWeeks(termCode) == MaxWeek

\* time strings are sequences of characters
t0900 == <<"0","9",":","0","0">>
t1000 == <<"1","0",":","0","0">>
t1130 == <<"1","1",":","3","0">>
t1400 == <<"1","4",":","0","0">>
t1500 == <<"1","5",":","0","0">>

courses == <<
    [CourseCode |-> "EC101", Terms |-> {"AT"}],
    [CourseCode |-> "MA201", Terms |-> {"AT", "WT"}] >>

CourseCodes == {courses[i].CourseCode : i \in 1..Len(courses)}

GroupTypes == <<"LEC", "CLA">>

Ses(w, d, s, e) == [Week |-> w, Day |-> d, StartTime |-> s, EndTime |-> e]

\* sessions[CourseCode][Type][GroupNumber][Term] = list of sessions
sessionTable == {
    [CourseCode |-> "EC101", Type |-> "LEC", GroupNumber |-> 1, Term |-> "AT",
        Sessions |-> << Ses(1, "Mon", t0900, t1000), Ses(2, "Mon", t0900, t1000) >>],
    [CourseCode |-> "EC101", Type |-> "CLA", GroupNumber |-> 1, Term |-> "AT",
        Sessions |-> << Ses(2, "Wed", t1000, t1130) >>],
    [CourseCode |-> "EC101", Type |-> "CLA", GroupNumber |-> 2, Term |-> "AT",
        Sessions |-> << Ses(2, "Mon", t1000, t1130) >>],
    [CourseCode |-> "MA201", Type |-> "LEC", GroupNumber |-> 1, Term |-> "AT",
        Sessions |-> << Ses(1, "Tue", t0900, t1000), Ses(2, "Tue", t0900, t1000) >>],
    [CourseCode |-> "MA201", Type |-> "LEC", GroupNumber |-> 1, Term |-> "WT",
        Sessions |-> << Ses(1, "Tue", t0900, t1000), Ses(2, "Tue", t0900, t1000) >>],
    [CourseCode |-> "MA201", Type |-> "CLA", GroupNumber |-> 1, Term |-> "AT",
        Sessions |-> << Ses(2, "Mon", t1000, t1130) >>],
    [CourseCode |-> "MA201", Type |-> "CLA", GroupNumber |-> 1, Term |-> "WT",
        Sessions |-> << Ses(2, "Mon", t1000, t1130) >>],
    [CourseCode |-> "MA201", Type |-> "CLA", GroupNumber |-> 2, Term |-> "AT",
        Sessions |-> << Ses(2, "Fri", t1400, t1500) >>],
    [CourseCode |-> "MA201", Type |-> "CLA", GroupNumber |-> 2, Term |-> "WT",
        Sessions |-> << Ses(2, "Fri", t1400, t1500) >>] }

\* this.sessions: the nested object sessions[CourseCode][Type][GroupNumber][Term]
sessions ==
    LET of(R) == (CHOOSE r \in R : TRUE).Sessions
        terms(R) == [term \in {r.Term : r \in R} |-> of({r \in R : r.Term = term})]
        numbers(R) == [number \in {r.GroupNumber : r \in R} |->
                          terms({r \in R : r.GroupNumber = number})]
        types(R) == [type \in {r.Type : r \in R} |-> numbers({r \in R : r.Type = type})]
    IN [code \in {r.CourseCode : r \in sessionTable} |->
           types({r \in sessionTable : r.CourseCode = code})]

\* this.app.sessions[code]?.[type]?.[number]?.[term]; an absent entry yields no sessions
groupSessions(code, type, number, term) ==
    IF /\ code \in DOMAIN sessions
       /\ type \in DOMAIN sessions[code]
       /\ number \in DOMAIN sessions[code][type]
       /\ term \in DOMAIN sessions[code][type][number]
    THEN sessions[code][type][number][term]
    ELSE <<>>

\* Object.keys(this.app.sessions[code]?.[type] || {}), parsed as integers
availableGroupNumbers(code, type) ==
    IF code \in DOMAIN sessions /\ type \in DOMAIN sessions[code]
    THEN DOMAIN sessions[code][type]
    ELSE {}

\* the enrollment.json baseline as loaded by loadData
originalEnrollment ==
    [c \in CourseCodes |-> [t \in {"LEC", "CLA"} |-> 1]]

-----------------------------------------------------------------------------
(* conflictDetector: timeToMinutes, sessionsConflict, detectConflicts *)

\* the value JS gives a number that failed to parse; every comparison with it is false
NaN == -1000000

Whitespace == {" "}

IsDigit(c) == c \in {"0","1","2","3","4","5","6","7","8","9"}

JsAdd(a, b) == IF a = NaN \/ b = NaN THEN NaN ELSE a + b

JsMul(a, b) == IF a = NaN \/ b = NaN THEN NaN ELSE a * b

JsLt(a, b) == a # NaN /\ b # NaN /\ a < b

\* String.prototype.trim
RECURSIVE Trim(_)
Trim(s) ==
    IF s = <<>> THEN s
    ELSE IF Head(s) \in Whitespace THEN Trim(Tail(s))
    ELSE IF s[Len(s)] \in Whitespace THEN Trim(SubSeq(s, 1, Len(s) - 1))
    ELSE s

\* String.prototype.includes
Includes(s, sub) ==
    \E i \in 1..(Len(s) - Len(sub) + 1) : SubSeq(s, i, i + Len(sub) - 1) = sub

\* parseInt(str, 10): leading whitespace, an optional sign, then the longest run of digits
ParseInt(str) ==
    LET RECURSIVE skip(_)
        skip(s) == IF s # <<>> /\ Head(s) \in Whitespace THEN skip(Tail(s)) ELSE s
        t == skip(str)
        neg == t # <<>> /\ Head(t) = "-"
        u == IF t # <<>> /\ Head(t) \in {"-", "+"} THEN Tail(t) ELSE t
        digit(c) ==
            CASE c = "0" -> 0 [] c = "1" -> 1 [] c = "2" -> 2 [] c = "3" -> 3 [] c = "4" -> 4
              [] c = "5" -> 5 [] c = "6" -> 6 [] c = "7" -> 7 [] c = "8" -> 8 [] c = "9" -> 9
        RECURSIVE run(_, _)
        run(s, acc) == IF s # <<>> /\ IsDigit(Head(s))
                       THEN run(Tail(s), acc * 10 + digit(Head(s)))
                       ELSE acc
    IN IF u = <<>> \/ ~IsDigit(Head(u)) THEN NaN
       ELSE IF neg THEN 0 - run(u, 0) ELSE run(u, 0)

RECURSIVE Split(_, _)
\* String.prototype.split on a one-character separator
Split(s, sep) ==
    IF \A i \in DOMAIN s : s[i] # sep THEN <<s>>
    ELSE LET first == CHOOSE i \in DOMAIN s : s[i] = sep /\ \A j \in 1..(i - 1) : s[j] # sep
         IN <<SubSeq(s, 1, first - 1)>> \o Split(SubSeq(s, first + 1, Len(s)), sep)

\* variant: 12 AM is not taken as hour 0
timeToMinutes_convert_noMidnight(isPM, isAM, hours, minutes) ==
    JsAdd(JsMul(IF isPM /\ hours # 12 THEN JsAdd(hours, 12) ELSE hours, 60), minutes)

\* timeToMinutes from the parsed numbers: the 12-hour adjustment and hours * 60 + minutes
timeToMinutes_convert(isPM, isAM, hours, minutes) ==
    JsAdd(JsMul(IF isPM /\ hours # 12 THEN JsAdd(hours, 12)
                ELSE IF isAM /\ hours = 12 THEN 0
                ELSE hours, 60), minutes)

\* timeToMinutes from [hoursStr, minutesStr] = cleanTime.split(':')
timeToMinutes_parse(isPM, isAM, parts) ==
    timeToMinutes_convert(isPM, isAM, ParseInt(parts[1]),
        ParseInt(IF Len(parts) < 2 THEN <<"0">>
                 ELSE IF parts[2] = <<>> THEN <<"0">> ELSE parts[2]))

\* timeToMinutes from time = timeStr.trim()
timeToMinutes_trimmed(time) ==
    LET keep(c) == c \notin ({"A","P","M","a","p","m"} \cup Whitespace)
    IN timeToMinutes_parse(Includes(time, <<"P","M">>) \/ Includes(time, <<"p","m">>),
                           Includes(time, <<"A","M">>) \/ Includes(time, <<"a","m">>),
                           Split(SelectSeq(time, keep), ":"))

timeToMinutes(timeStr) == timeToMinutes_trimmed(Trim(timeStr))

\* variant: only the start of the first session is compared with the end of the second
sessionsConflict_oneSided(session1, session2) ==
    IF session1.DayOfWeek # session2.DayOfWeek THEN FALSE
    ELSE JsLt(timeToMinutes(session1.StartTime), timeToMinutes(session2.EndTime))

\* variant: the days of the two sessions are not compared
sessionsConflict_anyDay(session1, session2) ==
    LET start1 == timeToMinutes(session1.StartTime)
        end1   == timeToMinutes(session1.EndTime)
        start2 == timeToMinutes(session2.StartTime)
        end2   == timeToMinutes(session2.EndTime)
    IN JsLt(start1, end2) /\ JsLt(start2, end1)

sessionsConflict(session1, session2) ==
    IF session1.DayOfWeek # session2.DayOfWeek THEN FALSE
    ELSE LET start1 == timeToMinutes(session1.StartTime)
             end1   == timeToMinutes(session1.EndTime)
             start2 == timeToMinutes(session2.StartTime)
             end2   == timeToMinutes(session2.EndTime)
         IN JsLt(start1, end2) /\ JsLt(start2, end1)

eventSession(event) ==
    [DayOfWeek |-> event.extendedProps.dayOfWeek,
     StartTime |-> event.extendedProps.startTime,
     EndTime   |-> event.extendedProps.endTime,
     Week      |-> event.extendedProps.weekNumber]

\* the ids of the pairs of relevant events that detectConflicts finds in conflict
\* variant: the week numbers of the two events are not compared
detectConflicts_pairs_anyWeek(relevantEvents) ==
    UNION {{relevantEvents[p[1]].id, relevantEvents[p[2]].id} :
           p \in {q \in (DOMAIN relevantEvents) \X (DOMAIN relevantEvents) :
                    /\ q[1] < q[2]
                    /\ relevantEvents[q[1]].id # relevantEvents[q[2]].id
                    /\ relevantEvents[q[1]].extendedProps.courseId
                          # relevantEvents[q[2]].extendedProps.courseId
                    /\ sessionsConflict(eventSession(relevantEvents[q[1]]),
                                        eventSession(relevantEvents[q[2]]))}}

detectConflicts_pairs(relevantEvents) ==
    UNION {{relevantEvents[p[1]].id, relevantEvents[p[2]].id} :
           p \in {q \in (DOMAIN relevantEvents) \X (DOMAIN relevantEvents) :
                    /\ q[1] < q[2]
                    /\ relevantEvents[q[1]].id # relevantEvents[q[2]].id
                    /\ relevantEvents[q[1]].extendedProps.courseId
                          # relevantEvents[q[2]].extendedProps.courseId
                    /\ relevantEvents[q[1]].extendedProps.weekNumber
                          = relevantEvents[q[2]].extendedProps.weekNumber
                    /\ sessionsConflict(eventSession(relevantEvents[q[1]]),
                                        eventSession(relevantEvents[q[2]]))}}

detectConflicts(events) ==
    LET relevant(event) == event.extendedProps.eventState \in {"enrolled", "selected", "lecture"}
    IN detectConflicts_pairs(SelectSeq(events, relevant))

-----------------------------------------------------------------------------
(* utils.sessionToEvent: the event object built from a session *)

\* the group objects built by PlanningState and getEventsForWeek carry
\* CourseCode, CourseName, Type and GroupNumber only, so group.GroupID is undefined
sessionToEvent(session, course, group, eventState) ==
    [id |-> <<course.CourseCode, "undefined", session.Week>>,
     classNames |-> << IF group.Type = "LEC" THEN "lecture"
                       ELSE CASE eventState = "enrolled"    -> "event-enrolled"
                              [] eventState = "selected"    -> "event-selected"
                              [] eventState = "alternative" -> "event-alternative"
                              [] eventState = "lecture"     -> "event-lecture" >>,
     extendedProps |->
        [courseCode  |-> course.CourseCode,
         courseId    |-> course.CourseCode,
         groupType   |-> group.Type,
         groupNumber |-> group.GroupNumber,
         weekNumber  |-> session.Week,
         dayOfWeek   |-> session.Day,
         startTime   |-> session.StartTime,
         endTime     |-> session.EndTime,
         eventState  |-> eventState]]

-----------------------------------------------------------------------------
(* PlanningState *)

\* constructor
PS_new ==
    [mode |-> "viewing",
     stagedChanges |-> EmptyMap,
     visibleCourses |-> {},
     showAlternatives |-> EmptyMap,
     conflictingEventIds |-> {}]

\* variant: the staged changes and the conflict set are not cleared on entry
PS_enterPlanningMode_keepsStaged(ps, enrolledCourses) ==
    LET codes == {enrolledCourses[i].CourseCode : i \in 1..Len(enrolledCourses)}
    IN [mode |-> "planning",
        visibleCourses |-> ps.visibleCourses \cup codes,
        showAlternatives |-> [c \in (DOMAIN ps.showAlternatives) \cup codes |->
                                 IF c \in codes THEN "my" ELSE ps.showAlternatives[c]],
        stagedChanges |-> ps.stagedChanges,
        conflictingEventIds |-> ps.conflictingEventIds]

PS_enterPlanningMode(ps, enrolledCourses) ==
    LET codes == {enrolledCourses[i].CourseCode : i \in 1..Len(enrolledCourses)}
    IN [mode |-> "planning",
        visibleCourses |-> ps.visibleCourses \cup codes,
        showAlternatives |-> [c \in (DOMAIN ps.showAlternatives) \cup codes |->
                                 IF c \in codes THEN "my" ELSE ps.showAlternatives[c]],
        stagedChanges |-> EmptyMap,
        conflictingEventIds |-> {}]

\* variant: cancel does not clear the staged changes
PS_exitPlanningMode_keepsOnCancel(ps, action) ==
    [mode |-> "viewing",
     visibleCourses |-> {},
     showAlternatives |-> EmptyMap,
     conflictingEventIds |-> {},
     stagedChanges |-> ps.stagedChanges]

\* the state exitPlanningMode(action) leaves
PS_exitPlanningMode(ps, action) ==
    [mode |-> "viewing",
     visibleCourses |-> {},
     showAlternatives |-> EmptyMap,
     conflictingEventIds |-> {},
     stagedChanges |-> IF action = "cancel" THEN EmptyMap ELSE ps.stagedChanges]

\* the value exitPlanningMode(action) returns: <<>> is null, <<m>> is the Map m
PS_exitPlanningMode_changes(ps, action) ==
    IF action # "cancel" THEN <<ps.stagedChanges>> ELSE <<>>

\* variant: the saved visibility set is not restored
PS_restorePreferences_keepsVisible(ps, savedState) ==
    [ps EXCEPT !.showAlternatives = savedState.showAlternatives]

PS_restorePreferences(ps, savedState) ==
    [ps EXCEPT !.visibleCourses = savedState.visibleCourses,
               !.showAlternatives = savedState.showAlternatives]

PS_getPreferences(ps) ==
    [visibleCourses |-> ps.visibleCourses, showAlternatives |-> ps.showAlternatives]

\* variant: hiding a course drops its staged changes
PS_toggleCourseVisibility_dropsStaged(ps, courseId) ==
    LET kept == {key \in DOMAIN ps.stagedChanges : key[1] # courseId}
    IN [ps EXCEPT !.visibleCourses = IF courseId \in @ THEN @ \ {courseId}
                                     ELSE @ \cup {courseId},
                  !.stagedChanges = [key \in kept |-> ps.stagedChanges[key]]]

PS_toggleCourseVisibility(ps, courseId) ==
    [ps EXCEPT !.visibleCourses = IF courseId \in @ THEN @ \ {courseId} ELSE @ \cup {courseId}]

PS_setAlternativeMode(ps, courseId, mode) ==
    [ps EXCEPT !.showAlternatives = MapSet(@, courseId, mode)]

\* variant: selecting the group that is already staged removes the staged change
PS_selectTutorialGroup_toggles(ps, courseId, groupType, fromGroupNumber, toGroupNumber) ==
    LET key == <<courseId, groupType>>
    IN IF fromGroupNumber = toGroupNumber
          \/ (key \in DOMAIN ps.stagedChanges /\ ps.stagedChanges[key].to = toGroupNumber)
       THEN [ps EXCEPT !.stagedChanges = MapDelete(@, key)]
       ELSE [ps EXCEPT !.stagedChanges =
                MapSet(@, key, [courseId |-> courseId, groupType |-> groupType,
                                from |-> fromGroupNumber, to |-> toGroupNumber])]

PS_selectTutorialGroup(ps, courseId, groupType, fromGroupNumber, toGroupNumber) ==
    LET key == <<courseId, groupType>>
    IN IF fromGroupNumber = toGroupNumber
       THEN [ps EXCEPT !.stagedChanges = MapDelete(@, key)]
       ELSE [ps EXCEPT !.stagedChanges =
                MapSet(@, key, [courseId |-> courseId, groupType |-> groupType,
                                from |-> fromGroupNumber, to |-> toGroupNumber])]

\* variant: the enrolled group is returned also when a change is staged
PS_getSelectedGroup_ignoresStaged(ps, courseId, groupType, enrolledGroupNumber) ==
    enrolledGroupNumber

PS_getSelectedGroup(ps, courseId, groupType, enrolledGroupNumber) ==
    LET key == <<courseId, groupType>>
    IN IF key \in DOMAIN ps.stagedChanges THEN ps.stagedChanges[key].to ELSE enrolledGroupNumber

\* Object.keys of an enrollment entry, in the order of the data file
ObjectKeys(entry) == LET has(t) == t \in DOMAIN entry IN SelectSeq(GroupTypes, has)

RECURSIVE SortedSeq(_)
SortedSeq(S) ==
    IF S = {} THEN <<>>
    ELSE LET m == CHOOSE x \in S : \A y \in S : x <= y
         IN <<m>> \o SortedSeq(S \ {m})

\* app.getEnrolledCoursesForTerm
getEnrolledCoursesForTerm(termCode) ==
    LET runs(course) == termCode \in course.Terms IN SelectSeq(courses, runs)

mkGroup(course, groupType, groupNumber) ==
    [CourseCode |-> course.CourseCode, Type |-> groupType, GroupNumber |-> groupNumber]

weekSessionsOf(course, groupType, groupNumber, termCode, weekNumber) ==
    LET inWeek(s) == s.Week = weekNumber
    IN SelectSeq(groupSessions(course.CourseCode, groupType, groupNumber, termCode), inWeek)

PS_addLectureEvents(course, enr, termCode, weekNumber) ==
    LET perType(groupType) ==
            IF groupType # "LEC" THEN <<>>
            ELSE LET toEvent(session) ==
                        << sessionToEvent(session, course,
                               mkGroup(course, groupType, enr[groupType]), "lecture") >>
                     eachSession(weekSessions) ==
                        Flatten([i \in DOMAIN weekSessions |-> toEvent(weekSessions[i])])
                 IN eachSession(weekSessionsOf(course, groupType, enr[groupType],
                                               termCode, weekNumber))
        eachType(groupTypes) == Flatten([i \in DOMAIN groupTypes |-> perType(groupTypes[i])])
    IN eachType(ObjectKeys(enr))

\* variant: the sessions of the selected group are tagged 'selected' also when it is the
\* enrolled group
PS_addMySessionsEvents_tagsSelected(course, groupType, enrolledGroupNumber, selectedGroupNumber, termCode, weekNumber) ==
    LET perGroup(groupNumber) ==
            LET toEvent(session) ==
                    << sessionToEvent(session, course,
                           mkGroup(course, groupType, groupNumber),
                           IF groupNumber = selectedGroupNumber
                           THEN "selected" ELSE "enrolled") >>
                eachSession(weekSessions) ==
                    Flatten([i \in DOMAIN weekSessions |-> toEvent(weekSessions[i])])
            IN eachSession(weekSessionsOf(course, groupType, groupNumber, termCode, weekNumber))
        eachGroup(groupsToShow) ==
            Flatten([i \in DOMAIN groupsToShow |-> perGroup(groupsToShow[i])])
    IN eachGroup(IF enrolledGroupNumber = selectedGroupNumber
                 THEN <<enrolledGroupNumber>>
                 ELSE <<enrolledGroupNumber, selectedGroupNumber>>)

PS_addMySessionsEvents(course, groupType, enrolledGroupNumber, selectedGroupNumber, termCode, weekNumber) ==
    LET perGroup(groupNumber) ==
            LET toEvent(session) ==
                    << sessionToEvent(session, course,
                           mkGroup(course, groupType, groupNumber),
                           IF groupNumber = selectedGroupNumber
                              /\ groupNumber # enrolledGroupNumber
                           THEN "selected" ELSE "enrolled") >>
                eachSession(weekSessions) ==
                    Flatten([i \in DOMAIN weekSessions |-> toEvent(weekSessions[i])])
            IN eachSession(weekSessionsOf(course, groupType, groupNumber, termCode, weekNumber))
        eachGroup(groupsToShow) ==
            Flatten([i \in DOMAIN groupsToShow |-> perGroup(groupsToShow[i])])
    IN eachGroup(IF enrolledGroupNumber = selectedGroupNumber
                 THEN <<enrolledGroupNumber>>
                 ELSE <<enrolledGroupNumber, selectedGroupNumber>>)

\* variant: the groups that are neither selected nor enrolled are tagged 'enrolled'
PS_addAllSessionsEvents_noAlternative(course, groupType, enrolledGroupNumber, selectedGroupNumber, termCode, weekNumber) ==
    LET perGroup(groupNumber) ==
            LET toEvent(session) ==
                    << sessionToEvent(session, course,
                           mkGroup(course, groupType, groupNumber),
                           IF groupNumber = selectedGroupNumber
                              /\ groupNumber # enrolledGroupNumber
                           THEN "selected"
                           ELSE "enrolled") >>
                eachSession(weekSessions) ==
                    Flatten([i \in DOMAIN weekSessions |-> toEvent(weekSessions[i])])
            IN eachSession(weekSessionsOf(course, groupType, groupNumber, termCode, weekNumber))
        eachGroup(availableGroups) ==
            Flatten([i \in DOMAIN availableGroups |-> perGroup(availableGroups[i])])
    IN eachGroup(SortedSeq(availableGroupNumbers(course.CourseCode, groupType)))

PS_addAllSessionsEvents(course, groupType, enrolledGroupNumber, selectedGroupNumber, termCode, weekNumber) ==
    LET perGroup(groupNumber) ==
            LET toEvent(session) ==
                    << sessionToEvent(session, course,
                           mkGroup(course, groupType, groupNumber),
                           IF groupNumber = selectedGroupNumber
                              /\ groupNumber # enrolledGroupNumber
                           THEN "selected"
                           ELSE IF groupNumber = enrolledGroupNumber THEN "enrolled"
                           ELSE "alternative") >>
                eachSession(weekSessions) ==
                    Flatten([i \in DOMAIN weekSessions |-> toEvent(weekSessions[i])])
            IN eachSession(weekSessionsOf(course, groupType, groupNumber, termCode, weekNumber))
        eachGroup(availableGroups) ==
            Flatten([i \in DOMAIN availableGroups |-> perGroup(availableGroups[i])])
    IN eachGroup(SortedSeq(availableGroupNumbers(course.CourseCode, groupType)))

\* the tutorial events of one group type of a course, by the course's detail mode
PS_addTutorialEvents(course, groupType, showMode, enrolledGroupNumber, selectedGroupNumber, termCode, weekNumber) ==
    IF showMode = "my"
    THEN PS_addMySessionsEvents(course, groupType, enrolledGroupNumber,
                                selectedGroupNumber, termCode, weekNumber)
    ELSE PS_addAllSessionsEvents(course, groupType, enrolledGroupNumber,
                                 selectedGroupNumber, termCode, weekNumber)

\* variant: the visibility flag of a course is not looked at
PS_projectEvents_showsHidden(ps, enrollmentData, termCode, weekNumber) ==
    LET perCourse(course) ==
            IF course.CourseCode \notin DOMAIN enrollmentData THEN <<>>
            ELSE LET enr == enrollmentData[course.CourseCode]
                     isTutorial(t) == t # "LEC"
                     perType(groupType) ==
                         PS_addTutorialEvents(course, groupType,
                             IF course.CourseCode \in DOMAIN ps.showAlternatives
                             THEN ps.showAlternatives[course.CourseCode] ELSE "my",
                             enr[groupType],
                             PS_getSelectedGroup(ps, course.CourseCode, groupType, enr[groupType]),
                             termCode, weekNumber)
                     eachType(tutorialTypes) ==
                         Flatten([i \in DOMAIN tutorialTypes |-> perType(tutorialTypes[i])])
                 IN PS_addLectureEvents(course, enr, termCode, weekNumber)
                        \o eachType(SelectSeq(ObjectKeys(enr), isTutorial))
        eachCourse(enrolledCourses) ==
            Flatten([i \in DOMAIN enrolledCourses |-> perCourse(enrolledCourses[i])])
    IN eachCourse(getEnrolledCoursesForTerm(termCode))

\* the events built by getEventsForPlanningMode before the conflict pass
PS_projectEvents(ps, enrollmentData, termCode, weekNumber) ==
    LET perCourse(course) ==
            IF course.CourseCode \notin ps.visibleCourses THEN <<>>
            ELSE IF course.CourseCode \notin DOMAIN enrollmentData THEN <<>>
            ELSE LET enr == enrollmentData[course.CourseCode]
                     isTutorial(t) == t # "LEC"
                     perType(groupType) ==
                         PS_addTutorialEvents(course, groupType,
                             IF course.CourseCode \in DOMAIN ps.showAlternatives
                             THEN ps.showAlternatives[course.CourseCode] ELSE "my",
                             enr[groupType],
                             PS_getSelectedGroup(ps, course.CourseCode, groupType, enr[groupType]),
                             termCode, weekNumber)
                     eachType(tutorialTypes) ==
                         Flatten([i \in DOMAIN tutorialTypes |-> perType(tutorialTypes[i])])
                 IN PS_addLectureEvents(course, enr, termCode, weekNumber)
                        \o eachType(SelectSeq(ObjectKeys(enr), isTutorial))
        eachCourse(enrolledCourses) ==
            Flatten([i \in DOMAIN enrolledCourses |-> perCourse(enrolledCourses[i])])
    IN eachCourse(getEnrolledCoursesForTerm(termCode))

\* the conflict pass: the events with the conflict class, and the conflict set stored
PS_markConflicts(ps, events, conflicts) ==
    [events |-> [i \in DOMAIN events |->
                    IF events[i].id \in conflicts
                    THEN [events[i] EXCEPT !.classNames = Append(@, "event-conflict")]
                    ELSE events[i]] \o <<>>,
     state  |-> [ps EXCEPT !.conflictingEventIds = conflicts]]

\* variant: the conflict set of the previous pass is kept
PS_detectAndMark_keepsOld(ps, events) == PS_markConflicts(ps, events, ps.conflictingEventIds)

\* getEventsForPlanningMode from the projected events
PS_detectAndMark(ps, events) == PS_markConflicts(ps, events, detectConflicts(events))

\* variant: the conflict pass also sees the events of the hidden courses
PS_getEventsForPlanningMode_detectsHidden(ps, enrollmentData, termCode, weekNumber) ==
    PS_markConflicts(ps, PS_projectEvents(ps, enrollmentData, termCode, weekNumber),
        detectConflicts(PS_projectEvents([ps EXCEPT !.visibleCourses = CourseCodes],
                                         enrollmentData, termCode, weekNumber)))

\* getEventsForPlanningMode: the events returned, marked, and the conflict set it stores
PS_getEventsForPlanningMode(ps, enrollmentData, termCode, weekNumber) ==
    PS_detectAndMark(ps, PS_projectEvents(ps, enrollmentData, termCode, weekNumber))

\* variant: a click on an alternative passes the clicked group as the enrolled one
PS_handleEventClick_swapsGroups(ps, enrollmentData, props) ==
    IF props.groupType = "LEC"
    THEN [state |-> ps, callback |-> "showDetails"]
    ELSE IF props.courseId \notin DOMAIN enrollmentData
    THEN [state |-> ps, callback |-> "none"]
    ELSE LET enrolledGroupNumber == enrollmentData[props.courseId][props.groupType]
         IN IF props.eventState = "selected"
            THEN [state |-> PS_selectTutorialGroup(ps, props.courseId, props.groupType,
                                enrolledGroupNumber, enrolledGroupNumber),
                  callback |-> "reload"]
            ELSE IF props.eventState = "enrolled"
            THEN [state |-> ps, callback |-> "showDetails"]
            ELSE IF props.eventState = "alternative"
            THEN [state |-> PS_selectTutorialGroup(ps, props.courseId, props.groupType,
                                props.groupNumber, enrolledGroupNumber),
                  callback |-> "reload"]
            ELSE [state |-> ps, callback |-> "none"]

\* variant: a click on an enrolled event reverts the staged change of its (course, type)
PS_handleEventClick_enrolledReverts(ps, enrollmentData, props) ==
    IF props.groupType = "LEC"
    THEN [state |-> ps, callback |-> "showDetails"]
    ELSE IF props.courseId \notin DOMAIN enrollmentData
    THEN [state |-> ps, callback |-> "none"]
    ELSE LET enrolledGroupNumber == enrollmentData[props.courseId][props.groupType]
         IN IF props.eventState \in {"selected", "enrolled"}
            THEN [state |-> PS_selectTutorialGroup(ps, props.courseId, props.groupType,
                                enrolledGroupNumber, enrolledGroupNumber),
                  callback |-> "reload"]
            ELSE IF props.eventState = "alternative"
            THEN [state |-> PS_selectTutorialGroup(ps, props.courseId, props.groupType,
                                enrolledGroupNumber, props.groupNumber),
                  callback |-> "reload"]
            ELSE [state |-> ps, callback |-> "none"]

\* variant: lectures are not set apart, and a click on one stages its group
PS_handleEventClick_lectureStages(ps, enrollmentData, props) ==
    IF props.courseId \notin DOMAIN enrollmentData
    THEN [state |-> ps, callback |-> "none"]
    ELSE LET enrolledGroupNumber == enrollmentData[props.courseId][props.groupType]
         IN IF props.eventState = "selected"
            THEN [state |-> PS_selectTutorialGroup(ps, props.courseId, props.groupType,
                                enrolledGroupNumber, enrolledGroupNumber),
                  callback |-> "reload"]
            ELSE IF props.eventState = "enrolled"
            THEN [state |-> ps, callback |-> "showDetails"]
            ELSE IF props.eventState \in {"alternative", "lecture"}
            THEN [state |-> PS_selectTutorialGroup(ps, props.courseId, props.groupType,
                                0, props.groupNumber),
                  callback |-> "reload"]
            ELSE [state |-> ps, callback |-> "none"]

\* handleEventClick: the state it leaves and the callback it invokes
PS_handleEventClick(ps, enrollmentData, props) ==
    IF props.groupType = "LEC"
    THEN [state |-> ps, callback |-> "showDetails"]
    ELSE IF props.courseId \notin DOMAIN enrollmentData
    THEN [state |-> ps, callback |-> "none"]
    ELSE LET enrolledGroupNumber == enrollmentData[props.courseId][props.groupType]
         IN IF props.eventState = "selected"
            THEN [state |-> PS_selectTutorialGroup(ps, props.courseId, props.groupType,
                                enrolledGroupNumber, enrolledGroupNumber),
                  callback |-> "reload"]
            ELSE IF props.eventState = "enrolled"
            THEN [state |-> ps, callback |-> "showDetails"]
            ELSE IF props.eventState = "alternative"
            THEN [state |-> PS_selectTutorialGroup(ps, props.courseId, props.groupType,
                                enrolledGroupNumber, props.groupNumber),
                  callback |-> "reload"]
            ELSE [state |-> ps, callback |-> "none"]

\* variant: the change count is read after the staged changes are cleared
PS_applyChanges_countsAfterClear(ps, confirmApply) ==
    IF ps.conflictingEventIds # {} /\ ~confirmApply
    THEN [state |-> ps, success |-> FALSE, message |-> "Application cancelled",
          asked |-> TRUE, callbackArgs |-> <<>>, changeCount |-> 0]
    ELSE IF Size(ps.stagedChanges) = 0
    THEN [state |-> ps, success |-> FALSE, message |-> "No changes to apply",
          asked |-> ps.conflictingEventIds # {}, callbackArgs |-> <<>>, changeCount |-> 0]
    ELSE [state |-> [ps EXCEPT !.stagedChanges = EmptyMap],
          success |-> TRUE, message |-> "Successfully applied",
          asked |-> ps.conflictingEventIds # {},
          callbackArgs |-> <<ps.stagedChanges>>,
          changeCount |-> Size(EmptyMap)]

\* variant: the answer to the confirmation prompt is not looked at
PS_applyChanges_ignoresAnswer(ps, confirmApply) ==
    IF Size(ps.stagedChanges) = 0
    THEN [state |-> ps, success |-> FALSE, message |-> "No changes to apply",
          asked |-> ps.conflictingEventIds # {}, callbackArgs |-> <<>>, changeCount |-> 0]
    ELSE [state |-> [ps EXCEPT !.stagedChanges = EmptyMap],
          success |-> TRUE, message |-> "Successfully applied",
          asked |-> ps.conflictingEventIds # {},
          callbackArgs |-> <<ps.stagedChanges>>,
          changeCount |-> Size(ps.stagedChanges)]

\* applyChanges(applyCallback): confirmApply is the user's answer to confirm(), asked
\* only when the conflict set is not empty; callbackArgs is <<>> when the callback is
\* not invoked and <<changes>> when it is invoked with changes
PS_applyChanges(ps, confirmApply) ==
    IF ps.conflictingEventIds # {} /\ ~confirmApply
    THEN [state |-> ps, success |-> FALSE, message |-> "Application cancelled",
          asked |-> TRUE, callbackArgs |-> <<>>, changeCount |-> 0]
    ELSE IF Size(ps.stagedChanges) = 0
    THEN [state |-> ps, success |-> FALSE, message |-> "No changes to apply",
          asked |-> ps.conflictingEventIds # {}, callbackArgs |-> <<>>, changeCount |-> 0]
    ELSE [state |-> [ps EXCEPT !.stagedChanges = EmptyMap],
          success |-> TRUE, message |-> "Successfully applied",
          asked |-> ps.conflictingEventIds # {},
          callbackArgs |-> <<ps.stagedChanges>>,
          changeCount |-> Size(ps.stagedChanges)]

-----------------------------------------------------------------------------
(* StorageManager: each key holds <<>> (absent) or <<value>> *)

emptyStorage == [mode |-> <<>>, planningState |-> <<>>, enrollmentOverrides |-> <<>>]

loadMode(st) == IF st.mode = <<>> THEN "viewing" ELSE st.mode[1]

saveMode(st, mode) == [st EXCEPT !.mode = <<mode>>]

\* stores Array.from(visibleCourses) and Object.fromEntries(showAlternatives) only
savePlanningState(st, state) ==
    [st EXCEPT !.planningState = << [visibleCourses |-> state.visibleCourses,
                                     showAlternatives |-> state.showAlternatives] >>]

loadPlanningState(st) == st.planningState

loadEnrollmentOverrides(st) ==
    IF st.enrollmentOverrides = <<>> THEN EmptyMap ELSE st.enrollmentOverrides[1]

saveEnrollmentOverrides(st, overrides) == [st EXCEPT !.enrollmentOverrides = <<overrides>>]

-----------------------------------------------------------------------------
(* ClassSwitcherApp *)

applyEnrollmentOverrides(enrollmentData, overrides) ==
    [c \in DOMAIN enrollmentData |->
        IF c \notin DOMAIN overrides THEN enrollmentData[c]
        ELSE [t \in DOMAIN enrollmentData[c] |->
                 IF t \in DOMAIN overrides[c] THEN overrides[c][t] ELSE enrollmentData[c][t]]]

\* the enrollment that applyChangesToEnrollment leaves in memory
applyChangesToEnrollment(enrollmentData, changes) ==
    [c \in DOMAIN enrollmentData |->
        LET mine == {k \in DOMAIN changes : changes[k].courseId = c}
            types == {changes[k].groupType : k \in mine}
        IN [t \in (DOMAIN enrollmentData[c]) \cup types |->
               IF t \in types
               THEN changes[CHOOSE k \in mine : changes[k].groupType = t].to
               ELSE enrollmentData[c][t]]]

\* variant: the saved overrides hold the changes of the last commit only
applyChangesToOverrides_forgetsEarlier(overrides, changes) ==
    [c \in {changes[k].courseId : k \in DOMAIN changes} |->
        LET mine == {k \in DOMAIN changes : changes[k].courseId = c}
        IN [t \in {changes[k].groupType : k \in mine} |->
               changes[CHOOSE k \in mine : changes[k].groupType = t].to]]

\* the overrides object that applyChangesToEnrollment saves
applyChangesToOverrides(overrides, changes) ==
    LET changed == {changes[k].courseId : k \in DOMAIN changes}
    IN [c \in (DOMAIN overrides) \cup changed |->
           LET mine == {k \in DOMAIN changes : changes[k].courseId = c}
               types == {changes[k].groupType : k \in mine}
               old == IF c \in DOMAIN overrides THEN overrides[c] ELSE EmptyMap
           IN [t \in (DOMAIN old) \cup types |->
                  IF t \in types
                  THEN changes[CHOOSE k \in mine : changes[k].groupType = t].to
                  ELSE old[t]]]

\* variant: the lecture sessions are tagged 'enrolled' as well
getEventsForWeek_allEnrolled(enrollmentData, termCode, weekNumber) ==
    LET perCourse(course) ==
            IF course.CourseCode \notin DOMAIN enrollmentData THEN <<>>
            ELSE LET enr == enrollmentData[course.CourseCode]
                     perType(groupType) ==
                         LET toEvent(session) ==
                                 << sessionToEvent(session, course,
                                        mkGroup(course, groupType, enr[groupType]),
                                        "enrolled") >>
                             eachSession(weekSessions) ==
                                 Flatten([i \in DOMAIN weekSessions |-> toEvent(weekSessions[i])])
                         IN eachSession(weekSessionsOf(course, groupType, enr[groupType],
                                                       termCode, weekNumber))
                     eachType(groupTypes) ==
                         Flatten([i \in DOMAIN groupTypes |-> perType(groupTypes[i])])
                 IN eachType(ObjectKeys(enr))
        eachCourse(enrolledCourses) ==
            Flatten([i \in DOMAIN enrolledCourses |-> perCourse(enrolledCourses[i])])
    IN eachCourse(getEnrolledCoursesForTerm(termCode))

\* viewing-mode projection
getEventsForWeek(enrollmentData, termCode, weekNumber) ==
    LET perCourse(course) ==
            IF course.CourseCode \notin DOMAIN enrollmentData THEN <<>>
            ELSE LET enr == enrollmentData[course.CourseCode]
                     perType(groupType) ==
                         LET toEvent(session) ==
                                 << sessionToEvent(session, course,
                                        mkGroup(course, groupType, enr[groupType]),
                                        IF groupType = "LEC" THEN "lecture" ELSE "enrolled") >>
                             eachSession(weekSessions) ==
                                 Flatten([i \in DOMAIN weekSessions |-> toEvent(weekSessions[i])])
                         IN eachSession(weekSessionsOf(course, groupType, enr[groupType],
                                                       termCode, weekNumber))
                     eachType(groupTypes) ==
                         Flatten([i \in DOMAIN groupTypes |-> perType(groupTypes[i])])
                 IN eachType(ObjectKeys(enr))
        eachCourse(enrolledCourses) ==
            Flatten([i \in DOMAIN enrolledCourses |-> perCourse(enrolledCourses[i])])
    IN eachCourse(getEnrolledCoursesForTerm(termCode))

\* loadWeek: the events put on the calendar and the PlanningState it leaves
loadWeek(ps, enrollmentData, termCode, weekNumber) ==
    IF ps.mode = "planning"
    THEN PS_getEventsForPlanningMode(ps, enrollmentData, termCode, weekNumber)
    ELSE [events |-> getEventsForWeek(enrollmentData, termCode, weekNumber), state |-> ps]

\* detectCurrentWeekAndTerm: today is <<>> outside every term, else <<term, week>>
detectCurrentWeekAndTerm(today) ==
    IF today = <<>> THEN [term |-> "AT", week |-> 1]
    ELSE [term |-> today[1], week |-> today[2]]

\* the dates tried: one outside every term, and one in the last week of each term
Todays == {<<>>} \cup {<<TERMS[i], totalWeeks(TERMS[i])>> : i \in 1..Len(TERMS)}

\* op: the handler ("none" for navigation, switches and timer); staged: the number of
\* staged changes it found; commits: invocations of applyChangesToEnrollment,
\* handed: the changes passed to it; asked, confirmed: the confirm() prompt and its answer;
\* clicked: <<extendedProps>> of the clicked event; callback: the callback a click invoked
NoLast(op) ==
    [op |-> op, staged |-> 0, success |-> FALSE, message |-> "", asked |-> FALSE,
     confirmed |-> FALSE, commits |-> 0, handed |-> EmptyMap, changeCount |-> 0,
     clicked |-> <<>>, callback |-> "none"]

\* app.enterPlanningMode up to its loadWeek
App_enterPlanningMode(ps, st, termCode) ==
    LET entered == PS_enterPlanningMode(ps, getEnrolledCoursesForTerm(termCode))
        saved == loadPlanningState(st)
    IN [state |-> IF saved # <<>> THEN PS_restorePreferences(entered, saved[1]) ELSE entered,
        storage |-> saveMode(st, "planning")]

\* app.exitPlanningMode(action) up to its loadWeek
App_exitPlanningMode(ps, enrollmentData, st, action) ==
    LET st1 == savePlanningState(st, PS_getPreferences(ps))
        changes == PS_exitPlanningMode_changes(ps, action)
        commit == action \in {"save", "apply"} /\ changes # <<>> /\ Size(changes[1]) > 0
    IN [state |-> PS_exitPlanningMode(ps, action),
        commits |-> IF commit THEN 1 ELSE 0,
        handed |-> IF commit THEN changes[1] ELSE EmptyMap,
        enrollment |-> IF commit THEN applyChangesToEnrollment(enrollmentData, changes[1])
                       ELSE enrollmentData,
        storage |-> saveMode(
            IF commit
            THEN saveEnrollmentOverrides(st1,
                     applyChangesToOverrides(loadEnrollmentOverrides(st1), changes[1]))
            ELSE st1, "viewing")]

-----------------------------------------------------------------------------
(* The handlers *)

\* the end of loadWeek: the calendar shows the events, and the PlanningState is the one
\* the projection left
Loaded(loaded) ==
    /\ planningState' = loaded.state
    /\ calendarEvents' = loaded.events

\* constructor and init() on the given localStorage content
Boot(st, today) ==
    LET enr == applyEnrollmentOverrides(originalEnrollment, loadEnrollmentOverrides(st))
        now == detectCurrentWeekAndTerm(today)
        savedMode == loadMode(st)
        saved == loadPlanningState(st)
        restored ==
            IF savedMode # "planning" THEN [state |-> PS_new, storage |-> st]
            ELSE IF saved # <<>>
            THEN [state |-> PS_restorePreferences(
                                PS_enterPlanningMode(PS_new, getEnrolledCoursesForTerm(now.term)),
                                saved[1]),
                  storage |-> st]
            ELSE App_enterPlanningMode(PS_new, st, now.term)
    IN /\ enrollment' = enr
       /\ currentTerm' = now.term
       /\ currentWeek' = now.week
       /\ Loaded(loadWeek(restored.state, enr, now.term, now.week))
       /\ storage' = restored.storage
       /\ timeout' = FALSE

Init ==
    \E today \in Todays :
        LET now == detectCurrentWeekAndTerm(today)
        IN /\ enrollment = originalEnrollment
           /\ currentTerm = now.term
           /\ currentWeek = now.week
           /\ planningState = PS_new
           /\ calendarEvents = getEventsForWeek(originalEnrollment, now.term, now.week)
           /\ storage = emptyStorage
           /\ timeout = FALSE
           /\ last = NoLast("none")
           /\ switchUses = 0
           /\ exitPreferences = <<>>

\* page reload
Reload ==
    \E today \in Todays :
        /\ Boot(storage, today)
        /\ last' = [NoLast("reload") EXCEPT !.staged = Size(planningState.stagedChanges)]
        /\ UNCHANGED <<switchUses, exitPreferences>>

Navigate(termCode, weekNumber) ==
    /\ currentTerm' = termCode
    /\ currentWeek' = weekNumber
    /\ Loaded(loadWeek(planningState, enrollment, termCode, weekNumber))
    /\ last' = NoLast("none")
    /\ UNCHANGED <<enrollment, storage, timeout, switchUses, exitPreferences>>

TermSelect ==
    \E i \in 1..Len(TERMS) : Navigate(TERMS[i], 1)

PrevWeek ==
    /\ currentWeek > 1
    /\ Navigate(currentTerm, currentWeek - 1)

NextWeek ==
    /\ currentWeek < totalWeeks(currentTerm)
    /\ Navigate(currentTerm, currentWeek + 1)

Today ==
    \E today \in Todays :
        LET now == detectCurrentWeekAndTerm(today)
        IN Navigate(now.term, now.week)

\* enterPlanningMode of the app, with its loadWeek
EnterPlanning(op) ==
    LET r == App_enterPlanningMode(planningState, storage, currentTerm)
    IN /\ Loaded(loadWeek(r.state, enrollment, currentTerm, currentWeek))
       /\ storage' = r.storage
       /\ last' = NoLast(op)
       /\ exitPreferences' = <<>>
       /\ UNCHANGED <<enrollment, currentTerm, currentWeek, timeout, switchUses>>

\* exitPlanningMode(action) of the app, with its loadWeek
ExitPlanning(action, op) ==
    LET r == App_exitPlanningMode(planningState, enrollment, storage, action)
    IN /\ Loaded(loadWeek(r.state, r.enrollment, currentTerm, currentWeek))
       /\ enrollment' = r.enrollment
       /\ storage' = r.storage
       /\ last' = [NoLast(op) EXCEPT !.staged = Size(planningState.stagedChanges),
                                      !.commits = r.commits, !.handed = r.handed]
       /\ exitPreferences' = <<PS_getPreferences(planningState)>>
       /\ UNCHANGED <<currentTerm, currentWeek, timeout, switchUses>>

TogglePlanningMode ==
    IF planningState.mode = "planning"
    THEN ExitPlanning("cancel", "toggle")
    ELSE EnterPlanning("toggle")

\* the Cancel, Save and Apply buttons are shown in planning mode only
CancelBtn ==
    /\ planningState.mode = "planning"
    /\ ExitPlanning("cancel", "cancel")

SaveBtn ==
    /\ planningState.mode = "planning"
    /\ ExitPlanning("save", "save")

ApplyBtn ==
    /\ planningState.mode = "planning"
    /\ \E confirmApply \in BOOLEAN :
        LET r == PS_applyChanges(planningState, confirmApply)
            called == r.callbackArgs # <<>>
            enr == IF called THEN applyChangesToEnrollment(enrollment, r.callbackArgs[1])
                   ELSE enrollment
            st == IF called
                  THEN saveEnrollmentOverrides(storage,
                           applyChangesToOverrides(loadEnrollmentOverrides(storage),
                                                   r.callbackArgs[1]))
                  ELSE storage
        IN /\ Loaded(IF r.success
                     THEN loadWeek(r.state, enr, currentTerm, currentWeek)
                     ELSE [events |-> calendarEvents, state |-> r.state])
           /\ enrollment' = enr
           /\ storage' = st
           /\ timeout' = (IF r.success THEN TRUE ELSE timeout)
           /\ last' = [NoLast("apply") EXCEPT
                          !.staged = Size(planningState.stagedChanges),
                          !.success = r.success, !.message = r.message,
                          !.asked = r.asked, !.confirmed = r.asked /\ confirmApply,
                          !.commits = IF called THEN 1 ELSE 0,
                          !.handed = IF called THEN r.callbackArgs[1] ELSE EmptyMap,
                          !.changeCount = r.changeCount]
           /\ UNCHANGED <<currentTerm, currentWeek, switchUses, exitPreferences>>

\* a click on an event of the calendar
EventClick ==
    \E i \in 1..Len(calendarEvents) :
        LET props == calendarEvents[i].extendedProps
            r == IF planningState.mode = "planning"
                 THEN PS_handleEventClick(planningState, enrollment, props)
                 ELSE [state |-> planningState, callback |-> "showDetails"]
        IN /\ Loaded(IF r.callback = "reload"
                     THEN loadWeek(r.state, enrollment, currentTerm, currentWeek)
                     ELSE [events |-> calendarEvents, state |-> r.state])
           /\ timeout' = (IF r.callback = "reload" THEN TRUE ELSE timeout)
           /\ last' = [NoLast("click") EXCEPT !.clicked = <<props>>, !.callback = r.callback]
           /\ UNCHANGED <<enrollment, currentTerm, currentWeek, storage, switchUses,
                          exitPreferences>>

\* the courses that have a filter item in the planning sidebar
SidebarCourses ==
    {c \in DOMAIN enrollment :
        \E i \in 1..Len(courses) : courses[i].CourseCode = c /\ currentTerm \in courses[i].Terms}

\* the visibility checkbox of a course
ToggleVisibility ==
    /\ planningState.mode = "planning"
    /\ switchUses < MaxSwitchUses
    /\ \E c \in SidebarCourses :
        /\ Loaded(loadWeek(PS_toggleCourseVisibility(planningState, c),
                           enrollment, currentTerm, currentWeek))
        /\ timeout' = TRUE
        /\ last' = NoLast("none")
        /\ switchUses' = switchUses + 1
        /\ UNCHANGED <<enrollment, currentTerm, currentWeek, storage, exitPreferences>>

\* the My Sessions / All Sessions switch of a course
SetDetailMode ==
    /\ planningState.mode = "planning"
    /\ switchUses < MaxSwitchUses
    /\ \E c \in SidebarCourses :
        LET showMode == IF c \in DOMAIN planningState.showAlternatives
                        THEN planningState.showAlternatives[c] ELSE "my"
            newMode == IF showMode = "my" THEN "all" ELSE "my"
        IN /\ Loaded(loadWeek(PS_setAlternativeMode(planningState, c, newMode),
                              enrollment, currentTerm, currentWeek))
           /\ timeout' = TRUE
           /\ last' = NoLast("none")
           /\ switchUses' = switchUses + 1
           /\ UNCHANGED <<enrollment, currentTerm, currentWeek, storage, exitPreferences>>

\* the timer of _debouncedSavePlanningState fires
DebounceFire ==
    /\ timeout
    /\ storage' = savePlanningState(storage, PS_getPreferences(planningState))
    /\ timeout' = FALSE
    /\ last' = NoLast("none")
    /\ UNCHANGED <<planningState, enrollment, currentTerm, currentWeek, calendarEvents,
                   switchUses, exitPreferences>>

Next ==
    \/ Reload
    \/ TermSelect
    \/ PrevWeek
    \/ NextWeek
    \/ Today
    \/ TogglePlanningMode
    \/ CancelBtn
    \/ SaveBtn
    \/ ApplyBtn
    \/ EventClick
    \/ ToggleVisibility
    \/ SetDetailMode
    \/ DebounceFire

Spec == Init /\ [][Next]_vars

-----------------------------------------------------------------------------
(* The PlanningState class driven through its methods, with arbitrary arguments *)

\* group numbers passed to selectTutorialGroup
MaxGroup == 2

\* the last call: the method and, for enterPlanningMode and selectTutorialGroup, its arguments
CallLast(op) ==
    [op |-> op, courses |-> {}, courseId |-> "", groupType |-> "", from |-> 0, to |-> 0]

InitPS ==
    /\ planningState = PS_new
    /\ enrollment = originalEnrollment
    /\ currentTerm = "AT"
    /\ currentWeek = 1
    /\ calendarEvents = <<>>
    /\ storage = emptyStorage
    /\ timeout = FALSE
    /\ switchUses = 0
    /\ exitPreferences = <<>>
    /\ last = CallLast("new")

PSFrame == UNCHANGED <<enrollment, currentTerm, currentWeek, calendarEvents, storage, timeout,
                       switchUses, exitPreferences>>

CallEnterPlanningMode ==
    \E given \in SUBSET CourseCodes :
        LET isGiven(course) == course.CourseCode \in given
        IN /\ planningState' = PS_enterPlanningMode(planningState, SelectSeq(courses, isGiven))
           /\ last' = [CallLast("enterPlanningMode") EXCEPT !.courses = given]
           /\ PSFrame

CallExitPlanningMode ==
    \E action \in {"cancel", "save", "apply"} :
        /\ planningState' = PS_exitPlanningMode(planningState, action)
        /\ last' = CallLast("exitPlanningMode")
        /\ PSFrame

CallToggleCourseVisibility ==
    \E c \in CourseCodes :
        /\ planningState' = PS_toggleCourseVisibility(planningState, c)
        /\ last' = CallLast("toggleCourseVisibility")
        /\ PSFrame

CallSetAlternativeMode ==
    \E c \in CourseCodes, mode \in {"my", "all"} :
        /\ planningState' = PS_setAlternativeMode(planningState, c, mode)
        /\ last' = CallLast("setAlternativeMode")
        /\ PSFrame

CallSelectTutorialGroup ==
    \E c \in CourseCodes, from \in 1..MaxGroup, to \in 1..MaxGroup :
        /\ planningState' = PS_selectTutorialGroup(planningState, c, "CLA", from, to)
        /\ last' = [CallLast("selectTutorialGroup") EXCEPT
                       !.courseId = c, !.groupType = "CLA", !.from = from, !.to = to]
        /\ PSFrame

CallGetEventsForPlanningMode ==
    \E i \in 1..Len(TERMS), weekNumber \in 1..MaxWeek :
        LET r == PS_getEventsForPlanningMode(planningState, enrollment, TERMS[i], weekNumber)
        IN /\ planningState' = r.state
           /\ last' = CallLast("getEventsForPlanningMode")
           /\ PSFrame

CallApplyChanges ==
    \E confirmApply \in BOOLEAN :
        LET r == PS_applyChanges(planningState, confirmApply)
        IN /\ planningState' = r.state
           /\ last' = CallLast("applyChanges")
           /\ PSFrame

NextPS ==
    \/ CallEnterPlanningMode
    \/ CallExitPlanningMode
    \/ CallToggleCourseVisibility
    \/ CallSetAlternativeMode
    \/ CallSelectTutorialGroup
    \/ CallGetEventsForPlanningMode
    \/ CallApplyChanges

SpecPS == InitPS /\ [][NextPS]_vars

-----------------------------------------------------------------------------
(* The conflict pass and the apply prompt on arbitrary projected events *)

\* events in one list handed to detectConflicts
MaxEvents == 3

\* an event as the projection builds it, through sessionToEvent
inputEvent(code, type, number, eventState, session) ==
    sessionToEvent(session, [CourseCode |-> code, Terms |-> {"AT"}],
                   [CourseCode |-> code, Type |-> type, GroupNumber |-> number], eventState)

\* the events tried: three courses, every display state, two weeks, two days, and
\* intervals that overlap, that touch (10:00 ends one and starts the other) and that
\* are apart
eventInputs == {
    inputEvent("EC101", "LEC", 1, "lecture",     Ses(1, "Mon", t0900, t1000)),
    inputEvent("EC101", "CLA", 1, "enrolled",    Ses(1, "Mon", t1000, t1130)),
    inputEvent("EC101", "CLA", 2, "alternative", Ses(1, "Mon", t0900, t1130)),
    inputEvent("EC101", "CLA", 1, "enrolled",    Ses(1, "Tue", t0900, t1130)),
    inputEvent("EC101", "LEC", 1, "lecture",     Ses(2, "Mon", t0900, t1000)),
    inputEvent("MA201", "CLA", 1, "enrolled",    Ses(1, "Mon", t0900, t1130)),
    inputEvent("MA201", "CLA", 2, "selected",    Ses(1, "Mon", t1000, t1130)),
    inputEvent("MA201", "CLA", 3, "alternative", Ses(1, "Mon", t0900, t1000)),
    inputEvent("MA201", "CLA", 1, "enrolled",    Ses(2, "Mon", t0900, t1130)),
    inputEvent("ST102", "LEC", 1, "lecture",     Ses(1, "Mon", t0900, t1130)),
    inputEvent("ST102", "CLA", 1, "selected",    Ses(1, "Mon", t0900, t1000)),
    inputEvent("ST102", "CLA", 2, "alternative", Ses(2, "Mon", t0900, t1130)) }

\* `${this.conflictingEventIds.size / 2}` of the confirmation prompt, as the fraction
\* <<numerator, denominator>> in lowest terms
PS_applyChanges_conflictCount(ps) ==
    IF Cardinality(ps.conflictingEventIds) % 2 = 0
    THEN <<Cardinality(ps.conflictingEventIds) \div 2, 1>>
    ELSE <<Cardinality(ps.conflictingEventIds), 2>>

\* the call record: the events given, whether applyChanges asked for confirmation and
\* the conflict count it showed (<<>> when it did not ask); the lists tried hold up to
\* MaxEvents different events, in every order
InitDC ==
    /\ last \in {[op |-> "input", events |-> events, asked |-> FALSE, count |-> <<>>] :
                    events \in UNION {{list \in [1..n -> eventInputs] :
                                          \A i, j \in 1..n : i # j => list[i] # list[j]} :
                                      n \in 0..MaxEvents}}
    /\ planningState = [PS_new EXCEPT !.mode = "planning"]
    /\ enrollment = originalEnrollment
    /\ currentTerm = "AT"
    /\ currentWeek = 1
    /\ calendarEvents = <<>>
    /\ storage = emptyStorage
    /\ timeout = FALSE
    /\ switchUses = 0
    /\ exitPreferences = <<>>

\* the conflict pass of getEventsForPlanningMode on the given events
CallDetectConflicts ==
    /\ last.op = "input"
    /\ Loaded(PS_detectAndMark(planningState, last.events))
    /\ last' = [last EXCEPT !.op = "detectConflicts"]
    /\ UNCHANGED <<enrollment, currentTerm, currentWeek, storage, timeout, switchUses,
                   exitPreferences>>

\* applyChanges after the conflict pass
CallApplyChangesAfterPass ==
    /\ last.op = "detectConflicts"
    /\ \E confirmApply \in BOOLEAN :
        LET r == PS_applyChanges(planningState, confirmApply)
        IN /\ planningState' = r.state
           /\ last' = [last EXCEPT !.op = "applyChanges", !.asked = r.asked,
                           !.count = IF r.asked
                                     THEN <<PS_applyChanges_conflictCount(planningState)>>
                                     ELSE <<>>]
    /\ PSFrame

NextDC ==
    \/ CallDetectConflicts
    \/ CallApplyChangesAfterPass

SpecDC == InitDC /\ [][NextDC]_vars

-----------------------------------------------------------------------------
(* sessionsConflict on arbitrary pairs of sessions *)

t0900am == <<"9",":","0","0"," ","a","m">>
t0230PM == <<"2",":","3","0"," ","P","M">>
t1430 == <<"1","4",":","3","0">>
tTBA == <<"T","B","A">>
tEmpty == <<>>

\* the call record: the two sessions given, the value returned, and whether the call
\* threw; the time strings tried are 24-hour and 12-hour ones, two that name the same
\* time in both encodings, and two that hold no number
InitSC ==
    /\ last \in
         LET timeInputs == {t0900, t0900am, t1000, t1130, t0230PM, t1430, t1500, tTBA, tEmpty}
             sessionInputs == {[DayOfWeek |-> d, StartTime |-> s, EndTime |-> e] :
                                  d \in {"Mon", "Tue"}, s \in timeInputs, e \in timeInputs}
         IN {[op |-> "input", session1 |-> a, session2 |-> b, result |-> FALSE,
              threw |-> FALSE] : a \in sessionInputs, b \in sessionInputs}
    /\ planningState = PS_new
    /\ enrollment = originalEnrollment
    /\ currentTerm = "AT"
    /\ currentWeek = 1
    /\ calendarEvents = <<>>
    /\ storage = emptyStorage
    /\ timeout = FALSE
    /\ switchUses = 0
    /\ exitPreferences = <<>>

\* sessionsConflict(session1, session2); no statement of sessionsConflict and timeToMinutes
\* throws on a string: trim, includes, replace, split and parseInt accept every string
CallSessionsConflict ==
    /\ last.op = "input"
    /\ last' = [last EXCEPT !.op = "sessionsConflict",
                            !.result = sessionsConflict(last.session1, last.session2),
                            !.threw = FALSE]
    /\ UNCHANGED planningState
    /\ PSFrame

NextSC == CallSessionsConflict

SpecSC == InitSC /\ [][NextSC]_vars

-----------------------------------------------------------------------------
(* timeToMinutes on the encodings of the times of a day *)

DigitChar(d) == <<"0","1","2","3","4","5","6","7","8","9">>[d + 1]

\* the decimal digits of n < 100, without and with a leading zero
Decimal(n) == IF n < 10 THEN <<DigitChar(n)>> ELSE <<DigitChar(n \div 10), DigitChar(n % 10)>>

TwoDigits(n) == <<DigitChar(n \div 10), DigitChar(n % 10)>>

\* the text of the time hours:minutes of the 24-hour clock in the given encoding
FormatTime(hours, minutes, style) ==
    LET h12 == IF hours % 12 = 0 THEN 12 ELSE hours % 12
        upper == IF hours < 12 THEN <<"A","M">> ELSE <<"P","M">>
        lower == IF hours < 12 THEN <<"a","m">> ELSE <<"p","m">>
    IN CASE style = "HH:MM"      -> TwoDigits(hours) \o <<":">> \o TwoDigits(minutes)
         [] style = "H:MM"       -> Decimal(hours) \o <<":">> \o TwoDigits(minutes)
         [] style = "H:MM AM"    -> Decimal(h12) \o <<":">> \o TwoDigits(minutes) \o <<" ">> \o upper
         [] style = "H:MM am"    -> Decimal(h12) \o <<":">> \o TwoDigits(minutes) \o <<" ">> \o lower
         [] style = "H:MMPM"     -> Decimal(h12) \o <<":">> \o TwoDigits(minutes) \o upper
         [] style = " HH:MM PM " -> <<" ">> \o TwoDigits(h12) \o <<":">> \o TwoDigits(minutes)
                                        \o <<" ">> \o upper \o <<" ">>

\* the call record: the time of day, its encoding, the text given and the value returned
InitTM ==
    /\ last \in {[op |-> "input", hours |-> h, minutes |-> m, style |-> style,
                   timeStr |-> FormatTime(h, m, style), result |-> 0] :
                    h \in 0..23, m \in {0, 5, 30, 59},
                    style \in {"HH:MM", "H:MM", "H:MM AM", "H:MM am", "H:MMPM", " HH:MM PM "}}
    /\ planningState = PS_new
    /\ enrollment = originalEnrollment
    /\ currentTerm = "AT"
    /\ currentWeek = 1
    /\ calendarEvents = <<>>
    /\ storage = emptyStorage
    /\ timeout = FALSE
    /\ switchUses = 0
    /\ exitPreferences = <<>>

CallTimeToMinutes ==
    /\ last.op = "input"
    /\ last' = [last EXCEPT !.op = "timeToMinutes", !.result = timeToMinutes(last.timeStr)]
    /\ UNCHANGED planningState
    /\ PSFrame

NextTM == CallTimeToMinutes

SpecTM == InitTM /\ [][NextTM]_vars

-----------------------------------------------------------------------------
(* The course colours: loadOrAssignCourseColors on the stored colour map, and the
   colour lookup of the two projections *)

\* courses in the course list for which the stored colour map was saved
MaxStoredCourses == 3

\* an hsl(h, s%, l%) colour is held as its three numbers
colorPalette == <<
    [h |-> 210, s |-> 75, l |-> 45], [h |-> 270, s |-> 65, l |-> 48],
    [h |-> 30,  s |-> 75, l |-> 45], [h |-> 180, s |-> 60, l |-> 40],
    [h |-> 300, s |-> 70, l |-> 45], [h |-> 200, s |-> 70, l |-> 42],
    [h |-> 250, s |-> 65, l |-> 45], [h |-> 40,  s |-> 70, l |-> 45],
    [h |-> 190, s |-> 65, l |-> 42], [h |-> 280, s |-> 68, l |-> 46],
    [h |-> 220, s |-> 70, l |-> 44], [h |-> 170, s |-> 60, l |-> 42] >>

generateCourseColor(index, total) ==
    LET color == colorPalette[(index % Len(colorPalette)) + 1]
        cycle == index \div Len(colorPalette)
    IN [color EXCEPT !.l = @ + (cycle % 2) * 3]

generateBorderColor(hslColor) ==
    [hslColor EXCEPT !.l = IF @ - 12 > 0 THEN @ - 12 ELSE 0]

\* the forEach of loadOrAssignCourseColors: one entry per course code of the list
assignCourseColors(courseList) ==
    LET entry(index) ==
            [background |-> generateCourseColor(index, Len(courseList)),
             border |-> generateBorderColor(generateCourseColor(index, Len(courseList))),
             index |-> index]
        lastIndexOf(code) ==
            CHOOSE i \in DOMAIN courseList :
                /\ courseList[i].CourseCode = code
                /\ \A j \in DOMAIN courseList : courseList[j].CourseCode = code => j <= i
    IN [code \in {courseList[i].CourseCode : i \in DOMAIN courseList} |->
           entry(lastIndexOf(code) - 1)]

saveCourseColors(st, courseColors) == [st EXCEPT !.courseColors = <<courseColors>>]

loadCourseColors(st) == st.courseColors

\* loadOrAssignCourseColors: the colour map it leaves in the app, and the storage
loadOrAssignCourseColors(st, courseList) ==
    LET savedColors == loadCourseColors(st)
    IN IF savedColors # <<>> /\ Size(savedColors[1]) > 0
       THEN [courseColors |-> savedColors[1], storage |-> st]
       ELSE [courseColors |-> assignCourseColors(courseList),
             storage |-> saveCourseColors(st, assignCourseColors(courseList))]

\* getEventsForWeek reads colorData.index for every session it converts: TRUE when
\* courseColors.get returns undefined for one of them, and the read throws a TypeError
getEventsForWeek_throws(courseColors, enrollmentData, termCode, weekNumber) ==
    \E i \in DOMAIN getEnrolledCoursesForTerm(termCode) :
        LET course == getEnrolledCoursesForTerm(termCode)[i]
        IN /\ course.CourseCode \in DOMAIN enrollmentData
           /\ \E groupType \in DOMAIN enrollmentData[course.CourseCode] :
                 weekSessionsOf(course, groupType,
                                enrollmentData[course.CourseCode][groupType],
                                termCode, weekNumber) # <<>>
           /\ course.CourseCode \notin DOMAIN courseColors

\* getEventsForPlanningMode reads colorData.index for every visible course that has an
\* enrollment entry: TRUE when the read throws
PS_getEventsForPlanningMode_throws(ps, courseColors, enrollmentData, termCode) ==
    \E i \in DOMAIN getEnrolledCoursesForTerm(termCode) :
        LET course == getEnrolledCoursesForTerm(termCode)[i]
        IN /\ course.CourseCode \in ps.visibleCourses
           /\ course.CourseCode \in DOMAIN enrollmentData
           /\ course.CourseCode \notin DOMAIN courseColors

\* the storage of the colour harness has the key of the course colours as well; its
\* stored value is absent, or what loadOrAssignCourseColors saved on an earlier visit for
\* the course list of an earlier data file: up to MaxStoredCourses different courses,
\* among them one that the present list no longer has.  The call record: the colour map
\* of the app, the projection asked for, and whether it threw
InitCC ==
    /\ storage \in
         LET codes == CourseCodes \cup {"ST102"}
             storedCourseLists ==
                 UNION {{list \in [1..n -> [CourseCode : codes, Terms : {{"AT"}}]] :
                            \A i, j \in 1..n :
                                i # j => list[i].CourseCode # list[j].CourseCode} :
                        n \in 0..MaxStoredCourses}
             storedColors ==
                 {<<>>} \cup {<<assignCourseColors(list)>> : list \in storedCourseLists}
         IN {[mode |-> <<>>, planningState |-> <<>>, enrollmentOverrides |-> <<>>,
              courseColors |-> saved] : saved \in storedColors}
    /\ last = [op |-> "input", courseColors |-> EmptyMap, termCode |-> "", weekNumber |-> 0,
               threw |-> FALSE]
    /\ planningState = PS_new
    /\ enrollment = originalEnrollment
    /\ currentTerm = "AT"
    /\ currentWeek = 1
    /\ calendarEvents = <<>>
    /\ timeout = FALSE
    /\ switchUses = 0
    /\ exitPreferences = <<>>

CallLoadOrAssignCourseColors ==
    /\ last.op = "input"
    /\ storage' = loadOrAssignCourseColors(storage, courses).storage
    /\ last' = [last EXCEPT !.op = "loadOrAssignCourseColors",
                            !.courseColors = loadOrAssignCourseColors(storage, courses).courseColors]
    /\ UNCHANGED <<planningState, enrollment, currentTerm, currentWeek, calendarEvents,
                   timeout, switchUses, exitPreferences>>

\* loadWeek in viewing mode
CallGetEventsForWeek ==
    /\ last.op # "input"
    /\ planningState.mode = "viewing"
    /\ \E i \in 1..Len(TERMS), weekNumber \in 1..MaxWeek :
          last' = [last EXCEPT !.op = "getEventsForWeek", !.termCode = TERMS[i],
                      !.weekNumber = weekNumber,
                      !.threw = getEventsForWeek_throws(last.courseColors, enrollment,
                                                        TERMS[i], weekNumber)]
    /\ UNCHANGED <<planningState, enrollment, currentTerm, currentWeek, calendarEvents,
                   storage, timeout, switchUses, exitPreferences>>

\* enterPlanningMode on the courses of a term, and the projection of its loadWeek
CallEnterPlanningModeColors ==
    /\ last.op # "input"
    /\ planningState.mode = "viewing"
    /\ \E i \in 1..Len(TERMS), weekNumber \in 1..MaxWeek :
          LET entered == PS_enterPlanningMode(planningState,
                                              getEnrolledCoursesForTerm(TERMS[i]))
          IN /\ planningState' = entered
             /\ last' = [last EXCEPT !.op = "getEventsForPlanningMode",
                             !.termCode = TERMS[i], !.weekNumber = weekNumber,
                             !.threw = PS_getEventsForPlanningMode_throws(
                                           entered, last.courseColors, enrollment, TERMS[i])]
    /\ UNCHANGED <<enrollment, currentTerm, currentWeek, calendarEvents, storage, timeout,
                   switchUses, exitPreferences>>

NextCC ==
    \/ CallLoadOrAssignCourseColors
    \/ CallGetEventsForWeek
    \/ CallEnterPlanningModeColors

SpecCC == InitCC /\ [][NextCC]_vars

-----------------------------------------------------------------------------
(* applyChanges of the ClassSwitcherApp that commits directly (js/app.js), on arbitrary
   staged changes *)

\* group numbers of the staged changes given to the direct applyChanges
MaxDirectGroup == 3

\* applyChanges(): `changes` is a reference to the Map planningState.stagedChanges, so
\* after stagedChanges.clear() it reads as the cleared Map; confirmApply is the answer to
\* confirm(), alert is <<>> or <<text, count>>, committed is <<>> or <<changes>> handed to
\* applyChangesToEnrollment
App_applyChanges(ps, enrollmentData, st, confirmApply) ==
    LET asked == ps.conflictingEventIds # {}
        cleared == [ps EXCEPT !.stagedChanges = EmptyMap]
    IN IF asked /\ ~confirmApply
       THEN [state |-> ps, enrollment |-> enrollmentData, storage |-> st, asked |-> asked,
             alert |-> <<>>, committed |-> <<>>]
       ELSE IF Size(ps.stagedChanges) = 0
       THEN [state |-> ps, enrollment |-> enrollmentData, storage |-> st, asked |-> asked,
             alert |-> <<"No changes to apply.">>, committed |-> <<>>]
       ELSE [state |-> cleared,
             enrollment |-> applyChangesToEnrollment(enrollmentData, ps.stagedChanges),
             storage |-> saveEnrollmentOverrides(st,
                             applyChangesToOverrides(loadEnrollmentOverrides(st),
                                                     ps.stagedChanges)),
             asked |-> asked,
             alert |-> <<"Successfully applied", Size(cleared.stagedChanges)>>,
             committed |-> <<ps.stagedChanges>>]

\* the staged changes tried: for the class of each course none, or one between two
\* different groups
directStagedChanges ==
    LET keys == {<<c, "CLA">> : c \in CourseCodes}
        change(key, from, to) ==
            [courseId |-> key[1], groupType |-> key[2], from |-> from, to |-> to]
        pick == [keys -> {<<>>} \cup {<<from, to>> : from, to \in 1..MaxDirectGroup}]
    IN {[key \in {k \in keys : f[k] # <<>>} |-> change(key, f[key][1], f[key][2])] :
           f \in {g \in pick : \A k \in keys : g[k] = <<>> \/ g[k][1] # g[k][2]}}

\* the call record: whether confirm() was asked, the alert shown and the changes
\* committed; the staged changes were made under a baseline in which each `from` is the
\* enrolled group
InitAJ ==
    /\ \E staged \in directStagedChanges,
          conflicts \in {{}, {<<"EC101", "undefined", 2>>, <<"MA201", "undefined", 2>>}} :
          /\ planningState = [PS_new EXCEPT !.mode = "planning",
                                             !.visibleCourses = CourseCodes,
                                             !.stagedChanges = staged,
                                             !.conflictingEventIds = conflicts]
          /\ enrollment =
                 [c \in DOMAIN originalEnrollment |->
                     [t \in DOMAIN originalEnrollment[c] |->
                         IF <<c, t>> \in DOMAIN staged THEN staged[<<c, t>>].from
                         ELSE originalEnrollment[c][t]]]
    /\ last = [op |-> "input", asked |-> FALSE, alert |-> <<>>, committed |-> <<>>]
    /\ currentTerm = "AT"
    /\ currentWeek = 2
    /\ calendarEvents = <<>>
    /\ storage = emptyStorage
    /\ timeout = FALSE
    /\ switchUses = 0
    /\ exitPreferences = <<>>

CallAppApplyChanges ==
    /\ last.op = "input"
    /\ \E confirmApply \in BOOLEAN :
          LET r == App_applyChanges(planningState, enrollment, storage, confirmApply)
          IN /\ planningState' = r.state
             /\ enrollment' = r.enrollment
             /\ storage' = r.storage
             /\ last' = [op |-> "applyChanges", asked |-> r.asked, alert |-> r.alert,
                         committed |-> r.committed]
    /\ UNCHANGED <<currentTerm, currentWeek, calendarEvents, timeout, switchUses,
                   exitPreferences>>

NextAJ == CallAppApplyChanges

SpecAJ == InitAJ /\ [][NextAJ]_vars

-----------------------------------------------------------------------------
(* utils.debounce around the save of the planning preferences, with a clock *)

\* the wait given to debounce, in clock ticks
MaxWait == 2

\* the clock stops at MaxTime
MaxTime == 4

\* calls of the debounced function
MaxCalls == 2

\* variant: a call while a timer is pending keeps the time at which that timer is due
debounce_keepsDue(pending, now, args, wait) ==
    IF pending # <<>>
    THEN <<[due |-> pending[1].due, args |-> args]>>
    ELSE <<[due |-> now + wait, args |-> args]>>

\* executedFunction(...args): clearTimeout(timeout) drops the pending timer, if any, and
\* setTimeout arms one that is due `wait` later and holds the arguments of this call
debounce(pending, now, args, wait) ==
    <<[due |-> now + wait, args |-> args]>>

\* the harness record: the wait, the clock, the number of calls, and the calls and runs
\* so far in the order in which they happened, each with its time and arguments, a run also with the
\* preferences it saved
InitDB ==
    /\ \E wait \in 1..MaxWait :
          last = [op |-> "new", wait |-> wait, now |-> 0, calls |-> 0, log |-> <<>>]
    /\ timeout = <<>>
    /\ planningState = PS_enterPlanningMode(PS_new, getEnrolledCoursesForTerm("AT"))
    /\ enrollment = originalEnrollment
    /\ currentTerm = "AT"
    /\ currentWeek = 1
    /\ calendarEvents = <<>>
    /\ storage = emptyStorage
    /\ switchUses = 0
    /\ exitPreferences = <<>>

\* a call of the debounced function
CallDebounced ==
    /\ last.calls < MaxCalls
    /\ last.now + last.wait <= MaxTime
    /\ \E args \in {"a", "b"} :
          /\ timeout' = debounce(timeout, last.now, args, last.wait)
          /\ last' = [last EXCEPT !.op = "call", !.calls = @ + 1,
                          !.log = Append(@, [kind |-> "call", at |-> last.now, args |-> args,
                                             saved |-> <<>>])]
    /\ UNCHANGED <<planningState, enrollment, currentTerm, currentWeek, calendarEvents,
                   storage, switchUses, exitPreferences>>

\* time passes; a timer that is due may still be waiting for the event loop
Tick ==
    /\ last.now < MaxTime
    /\ last' = [last EXCEPT !.op = "tick", !.now = @ + 1]
    /\ UNCHANGED <<planningState, enrollment, currentTerm, currentWeek, calendarEvents,
                   storage, timeout, switchUses, exitPreferences>>

\* the timer fires: the wrapped function runs with the arguments the timer holds, and
\* saves the preferences it reads now
TimerFire ==
    /\ timeout # <<>>
    /\ last.now >= timeout[1].due
    /\ storage' = savePlanningState(storage, PS_getPreferences(planningState))
    /\ timeout' = <<>>
    /\ last' = [last EXCEPT !.op = "run",
                    !.log = Append(@, [kind |-> "run", at |-> last.now,
                                       args |-> timeout[1].args,
                                       saved |-> <<PS_getPreferences(planningState)>>])]
    /\ UNCHANGED <<planningState, enrollment, currentTerm, currentWeek, calendarEvents,
                   switchUses, exitPreferences>>

\* the Cancel button while a timer is pending: the preferences change with no call of
\* the debounced function
ExitWhilePending ==
    /\ timeout # <<>>
    /\ planningState.mode = "planning"
    /\ planningState' = App_exitPlanningMode(planningState, enrollment, storage, "cancel").state
    /\ storage' = App_exitPlanningMode(planningState, enrollment, storage, "cancel").storage
    /\ last' = [last EXCEPT !.op = "exitPlanningMode"]
    /\ UNCHANGED <<enrollment, currentTerm, currentWeek, calendarEvents, timeout, switchUses,
                   exitPreferences>>

NextDB ==
    \/ CallDebounced
    \/ Tick
    \/ TimerFire
    \/ ExitWhilePending

\* the clock advances, and the event loop runs a timer that is due
SpecDB == InitDB /\ [][NextDB]_vars /\ WF_vars(Tick) /\ WF_vars(TimerFire)

-----------------------------------------------------------------------------
(* Week navigation on the configured terms and their dates. A Date is held as its day
   number, the days since 1970-01-01, a Thursday *)

\* days before the first and after the last week of a term among the dates tried as today
MaxDaysOff == 2

\* CONFIG.TERMS, in the order of Object.entries; weekOneStart 'YYYY-MM-DD' as <<Y, M, D>>
CONFIG_TERMS == <<
    [code |-> "AT", weekOneStart |-> <<2025, 9, 29>>, totalWeeks |-> 11],
    [code |-> "WT", weekOneStart |-> <<2026, 1, 19>>, totalWeeks |-> 11],
    [code |-> "ST", weekOneStart |-> <<2026, 5, 5>>,  totalWeeks |-> 11] >>

\* CONFIG.TERMS[termCode]; <<>> when there is no such term
configTerm(termCode) ==
    LET is(term) == term.code = termCode IN SelectSeq(CONFIG_TERMS, is)

\* new Date('YYYY-MM-DD'): the day number of a date of the Gregorian calendar
newDate(ymd) ==
    LET y == IF ymd[2] <= 2 THEN ymd[1] - 1 ELSE ymd[1]
        era == y \div 400
        yoe == y - era * 400
        mp == IF ymd[2] > 2 THEN ymd[2] - 3 ELSE ymd[2] + 9
        doy == (153 * mp + 2) \div 5 + ymd[3] - 1
        doe == yoe * 365 + yoe \div 4 - yoe \div 100 + doy
    IN era * 146097 + doe - 719468

\* the day of the week of a day number
dayOfWeek(date) ==
    <<"Mon", "Tue", "Wed", "Thu", "Fri", "Sat", "Sun">>[((date + 3) % 7) + 1]

\* getWeekDateRange(termCode, weekNumber).start; the harness passes configured terms only
getWeekDateRange(termCode, weekNumber) ==
    newDate(configTerm(termCode)[1].weekOneStart) + (weekNumber - 1) * 7

\* sessionToEvent: the date on which a session of the given day is placed
sessionDate(weekStart, day) ==
    LET dayMap == [Mon |-> 0, Tue |-> 1, Wed |-> 2, Thu |-> 3, Fri |-> 4, Sat |-> 5,
                   Sun |-> 6]
    IN weekStart + dayMap[day]

\* variant: the week number is returned also when it is outside the term
getWeekNumberForDate_unchecked(date, termCode) ==
    IF configTerm(termCode) = <<>> THEN <<>>
    ELSE <<((date - newDate(configTerm(termCode)[1].weekOneStart)) \div 7) + 1>>

\* getWeekNumberForDate: <<>> for null, else <<weekNumber>>
getWeekNumberForDate(date, termCode) ==
    IF configTerm(termCode) = <<>> THEN <<>>
    ELSE LET term == configTerm(termCode)[1]
             weekNumber == ((date - newDate(term.weekOneStart)) \div 7) + 1
         IN IF weekNumber >= 1 /\ weekNumber <= term.totalWeeks
            THEN <<weekNumber>> ELSE <<>>

\* getTermForDate: <<>> for null, else <<code>> of the first term the date falls into
getTermForDate(date) ==
    LET inTerm(term) == getWeekNumberForDate(date, term.code) # <<>>
        found == SelectSeq(CONFIG_TERMS, inTerm)
    IN IF found = <<>> THEN <<>> ELSE <<found[1].code>>

\* detectCurrentWeekAndTerm with new Date() = today; currentWeek is null (<<>>) when
\* getWeekNumberForDate returns null for the term found
detectCurrentWeekAndTermOn(today) ==
    IF getTermForDate(today) # <<>>
    THEN [term |-> getTermForDate(today)[1],
          week |-> getWeekNumberForDate(today, getTermForDate(today)[1])]
    ELSE [term |-> "AT", week |-> <<1>>]

\* the dates tried as today: around the first and the last week of every term, and one
\* day of every week
todayInputs ==
    UNION {LET start == newDate(CONFIG_TERMS[i].weekOneStart)
               weeks == CONFIG_TERMS[i].totalWeeks
           IN ((start - MaxDaysOff)..(start + MaxDaysOff))
              \cup ((start + 7 * weeks - MaxDaysOff)..(start + 7 * weeks + MaxDaysOff))
              \cup {start + 7 * w + 3 : w \in 0..(weeks - 1)} :
           i \in DOMAIN CONFIG_TERMS}

\* the end of loadWeek of the navigation harness: the term and week shown (the week is
\* <<weekNumber>>, or <<>> for null) and the call record with the start of the week
WeekLoaded(op, today, termCode, week) ==
    /\ currentTerm' = termCode
    /\ currentWeek' = week
    /\ last' = [op |-> op, today |-> today,
                weekStart |-> IF week = <<>> THEN <<>>
                              ELSE <<getWeekDateRange(termCode, week[1])>>]
    /\ UNCHANGED <<planningState, enrollment, calendarEvents, storage, timeout, switchUses,
                   exitPreferences>>

\* init(): detectCurrentWeekAndTerm, then loadWeek
InitWK ==
    /\ \E today \in todayInputs :
          /\ currentTerm = detectCurrentWeekAndTermOn(today).term
          /\ currentWeek = detectCurrentWeekAndTermOn(today).week
          /\ last = [op |-> "init", today |-> <<today>>,
                     weekStart |-> IF detectCurrentWeekAndTermOn(today).week = <<>> THEN <<>>
                                   ELSE <<getWeekDateRange(
                                              detectCurrentWeekAndTermOn(today).term,
                                              detectCurrentWeekAndTermOn(today).week[1])>>]
    /\ planningState = PS_new
    /\ enrollment = originalEnrollment
    /\ calendarEvents = <<>>
    /\ storage = emptyStorage
    /\ timeout = FALSE
    /\ switchUses = 0
    /\ exitPreferences = <<>>

\* the week as the comparisons and the sum of the listeners read it: null counts as 0
weekValue(week) == IF week = <<>> THEN 0 ELSE week[1]

\* the listeners of setupEventListeners
WeekPrev ==
    /\ weekValue(currentWeek) > 1
    /\ WeekLoaded("prevWeek", <<>>, currentTerm, <<weekValue(currentWeek) - 1>>)

WeekNext ==
    /\ weekValue(currentWeek) < configTerm(currentTerm)[1].totalWeeks
    /\ WeekLoaded("nextWeek", <<>>, currentTerm, <<weekValue(currentWeek) + 1>>)

WeekTermSelect ==
    \E i \in DOMAIN CONFIG_TERMS :
        WeekLoaded("termSelector", <<>>, CONFIG_TERMS[i].code, <<1>>)

WeekToday ==
    \E today \in todayInputs :
        WeekLoaded("todayBtn", <<today>>, detectCurrentWeekAndTermOn(today).term,
                   detectCurrentWeekAndTermOn(today).week)

NextWK ==
    \/ WeekPrev
    \/ WeekNext
    \/ WeekTermSelect
    \/ WeekToday

SpecWK == InitWK /\ [][NextWK]_vars

-----------------------------------------------------------------------------
(* EnrollmentService.replaceAllCourses on the table enrollment_courses. The table is a
   set of rows; each request to the server either takes effect as a whole or returns an
   error and changes nothing *)

\* the rows convertFromEnrollmentFormat builds for an enrollment object
convertFromEnrollmentFormat(enrollmentData, userId) ==
    {[user_id |-> userId, course_code |-> c, session_type |-> t,
      class_group |-> enrollmentData[c][t]] :
        <<c, t>> \in {ct \in (DOMAIN enrollmentData) \X SeqToSet(GroupTypes) :
                         ct[2] \in DOMAIN enrollmentData[ct[1]]}}

\* the call record: the user id (<<>> when not authenticated), the table, the rows of the
\* user before the call, where the call stands, and the error returned (<<>> for null).
\* The enrollment objects tried have every course absent, or enrolled with a class group;
\* the table holds rows of another user as well, which no request of this user touches
InitRA ==
    LET enrollmentInputs ==
            {[c \in {x \in CourseCodes : f[x] # 0} |-> [LEC |-> 1, CLA |-> f[c]]] :
                f \in [CourseCodes -> 0..MaxGroup]}
    IN
    /\ \E userId \in {<<>>, <<"user-1">>}, stored \in enrollmentInputs :
          last = [op |-> "input", userId |-> userId,
                  rows |-> convertFromEnrollmentFormat(originalEnrollment, "user-2")
                              \cup convertFromEnrollmentFormat(stored, "user-1"),
                  before |-> convertFromEnrollmentFormat(stored, "user-1"),
                  error |-> <<>>]
    /\ enrollment \in enrollmentInputs
    /\ planningState = PS_new
    /\ currentTerm = "AT"
    /\ currentWeek = 1
    /\ calendarEvents = <<>>
    /\ storage = emptyStorage
    /\ timeout = FALSE
    /\ switchUses = 0
    /\ exitPreferences = <<>>

\* replaceAllCourses(enrollment) up to the answer to its delete request
ReplaceAllCoursesDelete ==
    /\ last.op = "input"
    /\ \/ /\ last.userId = <<>>
          /\ last' = [last EXCEPT !.op = "returned", !.error = <<"User not authenticated">>]
       \/ /\ last.userId # <<>>
          /\ \E deleteError \in {<<>>, <<"delete failed">>} :
                last' = IF deleteError # <<>>
                        THEN [last EXCEPT !.op = "returned", !.error = deleteError]
                        ELSE [last EXCEPT !.op = "deleted",
                                 !.rows = {r \in @ : r.user_id # last.userId[1]}]
    /\ UNCHANGED <<planningState, enrollment, currentTerm, currentWeek, calendarEvents,
                   storage, timeout, switchUses, exitPreferences>>

\* replaceAllCourses(enrollment) from the answer to its delete request to its return
ReplaceAllCoursesInsert ==
    /\ last.op = "deleted"
    /\ \/ /\ convertFromEnrollmentFormat(enrollment, last.userId[1]) = {}
          /\ last' = [last EXCEPT !.op = "returned", !.error = <<>>]
       \/ /\ convertFromEnrollmentFormat(enrollment, last.userId[1]) # {}
          /\ \E insertError \in {<<>>, <<"insert failed">>} :
                last' = IF insertError # <<>>
                        THEN [last EXCEPT !.op = "returned", !.error = insertError]
                        ELSE [last EXCEPT !.op = "returned", !.error = <<>>,
                                 !.rows = @ \cup convertFromEnrollmentFormat(
                                                     enrollment, last.userId[1])]
    /\ UNCHANGED <<planningState, enrollment, currentTerm, currentWeek, calendarEvents,
                   storage, timeout, switchUses, exitPreferences>>

NextRA ==
    \/ ReplaceAllCoursesDelete
    \/ ReplaceAllCoursesInsert

SpecRA == InitRA /\ [][NextRA]_vars

-----------------------------------------------------------------------------
(* Properties *)

Staged == planningState.stagedChanges

Baseline(key) == enrollment[key[1]][key[2]]

\* C1: whenever the mode is 'viewing' the staged-changes map is empty, also after
\* exitPlanning('save') has handed the staged changes over
C1_ViewingHoldsNoStagedChanges ==
    planningState.mode = "viewing" => Size(Staged) = 0

\* C2: a cancel (Cancel button, or the toggle button in planning mode) leaves the staged
\* changes empty, returns no changes, invokes no commit, and leaves the enrollment
\* baseline and the persisted overrides as they were
C2_CancelDiscards ==
    [][ (last'.op = "cancel" \/ (last'.op = "toggle" /\ planningState.mode = "planning"))
        => /\ Size(planningState'.stagedChanges) = 0
           /\ PS_exitPlanningMode_changes(planningState, "cancel") = <<>>
           /\ last'.commits = 0
           /\ Size(last'.handed) = 0
           /\ enrollment' = enrollment
           /\ storage'.enrollmentOverrides = storage.enrollmentOverrides ]_vars

C2_Witness ==
    /\ last.op \in {"cancel", "toggle"}
    /\ last.staged = 2
    /\ planningState.mode = "viewing"

\* C3: applyChanges with n >= 1 staged changes and no conflicts or a confirmed prompt
\* invokes the commit callback once with all n changes, empties the staged changes, stays
\* in planning mode, returns success with changeCount = n, and the baseline group of
\* every committed (course, type) is the change's `to`
C3_ApplyCommitsAll ==
    [][ (/\ last'.op = "apply"
         /\ Size(Staged) >= 1
         /\ (planningState.conflictingEventIds = {} \/ last'.confirmed))
        => /\ last'.commits = 1
           /\ last'.handed = Staged
           /\ Size(planningState'.stagedChanges) = 0
           /\ planningState'.mode = "planning"
           /\ last'.success
           /\ last'.changeCount = Size(Staged)
           /\ \A key \in DOMAIN Staged :
                 enrollment'[key[1]][key[2]] = Staged[key].to ]_vars

C3_Witness ==
    /\ last.op = "apply"
    /\ last.success
    /\ last.changeCount = 2
    /\ last.confirmed

\* C4: with no staged changes applyChanges returns 'No changes to apply' and invokes no
\* commit callback, whatever the conflict set and the answer to the prompt
C4_EmptyApplyReportsNoChanges ==
    [][ (last'.op = "apply" /\ Size(Staged) = 0)
        => /\ ~last'.success
           /\ last'.message = "No changes to apply"
           /\ last'.commits = 0 ]_vars

\* C5: with conflicts found by the last pass and no confirmation, applyChanges returns
\* 'Application cancelled', invokes no commit callback and leaves staged changes,
\* baseline, preferences, mode and storage unchanged
C5_DeclinedApplyChangesNothing ==
    [][ (/\ last'.op = "apply"
         /\ planningState.conflictingEventIds # {}
         /\ ~last'.confirmed)
        => /\ last'.asked
           /\ ~last'.success
           /\ last'.message = "Application cancelled"
           /\ last'.commits = 0
           /\ planningState' = planningState
           /\ enrollment' = enrollment
           /\ storage' = storage ]_vars

C5_Witness ==
    /\ last.op = "apply"
    /\ last.message = "Application cancelled"
    /\ Size(Staged) = 2

\* C6: when the last detection pass found a conflict, Save and Apply obtain the user's
\* confirmation before a staged change is written to the baseline or the overrides
C6_CommitWithConflictsIsConfirmed ==
    [][ (last'.commits > 0 /\ planningState.conflictingEventIds # {})
        => (last'.asked /\ last'.confirmed) ]_vars

\* C7: selectTutorialGroup is idempotent and key-local: a second call with the same
\* arguments changes nothing; to = from leaves no entry for the key; to # from leaves
\* the entry from/to for the key; every other entry is unchanged
C7_SelectIdempotentKeyLocal ==
    [][ last'.op = "selectTutorialGroup"
        => LET key == <<last'.courseId, last'.groupType>>
               after == planningState'.stagedChanges
           IN /\ PS_selectTutorialGroup(planningState', last'.courseId, last'.groupType,
                                        last'.from, last'.to).stagedChanges = after
              /\ (last'.to = last'.from => key \notin DOMAIN after)
              /\ (last'.to # last'.from =>
                    /\ key \in DOMAIN after
                    /\ after[key].from = last'.from
                    /\ after[key].to = last'.to
                    /\ after[key].courseId = last'.courseId
                    /\ after[key].groupType = last'.groupType)
              /\ (DOMAIN after) \ {key} = (DOMAIN Staged) \ {key}
              /\ \A k \in (DOMAIN Staged) \ {key} : after[k] = Staged[k] ]_vars

C7_Witness ==
    /\ last.op = "selectTutorialGroup"
    /\ last.to # last.from
    /\ Size(Staged) = 2

\* C8: no staged change has to = from, and in planning mode every staged change's from is
\* the current baseline group of its (course, type) and its to differs from it
C8_StagedChangesAreRealChanges ==
    /\ \A key \in DOMAIN Staged : Staged[key].to # Staged[key].from
    /\ planningState.mode = "planning"
       => \A key \in DOMAIN Staged :
             /\ Staged[key].from = Baseline(key)
             /\ Staged[key].to # Baseline(key)

C8_Witness ==
    /\ planningState.mode = "planning"
    /\ Size(Staged) = 2
    /\ enrollment # originalEnrollment

\* C9: a click in planning mode on a 'lecture' or 'enrolled' event changes no state and
\* shows the details; on a 'selected' event it removes the staged change of the
\* (course, type) and reloads; on an 'alternative' event it stages baseline -> clicked
\* group for the (course, type) and reloads
C9_ClickDispatch ==
    [][ (last'.op = "click" /\ planningState.mode = "planning")
        => LET props == last'.clicked[1]
               key == <<props.courseId, props.groupType>>
               after == planningState'.stagedChanges
               others == /\ (DOMAIN after) \ {key} = (DOMAIN Staged) \ {key}
                         /\ \A k \in (DOMAIN Staged) \ {key} : after[k] = Staged[k]
                         /\ enrollment' = enrollment
                         /\ storage' = storage
           IN /\ props.eventState \in {"lecture", "enrolled"}
                 => /\ last'.callback = "showDetails"
                    /\ planningState' = planningState
                    /\ calendarEvents' = calendarEvents
                    /\ timeout' = timeout
                    /\ others
              /\ props.eventState = "selected"
                 => /\ last'.callback = "reload"
                    /\ key \notin DOMAIN after
                    /\ others
              /\ props.eventState = "alternative"
                 => /\ last'.callback = "reload"
                    /\ key \in DOMAIN after
                    /\ after[key].from = Baseline(key)
                    /\ after[key].to = props.groupNumber
                    /\ others ]_vars

C9_Witness ==
    /\ last.op = "click"
    /\ planningState.mode = "planning"
    /\ last.clicked[1].eventState = "alternative"
    /\ Size(Staged) = 2

\* C10: after enterPlanningMode(enrolledCourses), from any state, the mode is 'planning',
\* the staged changes and the conflict set are empty, and every given course is visible
\* with detail mode 'my'
C10_EnterResets ==
    last.op = "enterPlanningMode"
    => /\ planningState.mode = "planning"
       /\ Size(Staged) = 0
       /\ planningState.conflictingEventIds = {}
       /\ \A c \in last.courses :
             /\ c \in planningState.visibleCourses
             /\ c \in DOMAIN planningState.showAlternatives
             /\ planningState.showAlternatives[c] = "my"

C10_Witness ==
    /\ last.op = "enterPlanningMode"
    /\ last.courses = {"EC101"}
    /\ planningState.visibleCourses = CourseCodes
    /\ "MA201" \in DOMAIN planningState.showAlternatives
    /\ planningState.showAlternatives["MA201"] = "all"

\* C11: the visibility set and the detail-mode map that enterPlanning restores equal those
\* in effect immediately before the last exit from planning mode, whatever happened in
\* between, the firing of a pending debounced preference save included
C11_ReentryRestoresExitPreferences ==
    [][ (/\ last'.op = "toggle"
         /\ planningState.mode = "viewing"
         /\ exitPreferences # <<>>)
        => PS_getPreferences(planningState') = exitPreferences[1] ]_vars

\* C12: the persisted planning-state snapshot holds the visibility set and the detail-mode
\* map and nothing else, and a page reload leaves the staged changes empty, whatever was
\* staged before it, and, when it restores planning mode from a snapshot, leaves the
\* preferences of that snapshot in effect
C12_StagedChangesAreTransient ==
    [][ /\ storage'.planningState # <<>>
           => DOMAIN storage'.planningState[1] = {"visibleCourses", "showAlternatives"}
        /\ last'.op = "reload"
           => /\ Size(planningState'.stagedChanges) = 0
              /\ storage'.planningState = storage.planningState
              /\ (loadMode(storage) = "planning" /\ loadPlanningState(storage) # <<>>)
                 => /\ planningState'.mode = "planning"
                    /\ PS_getPreferences(planningState') = loadPlanningState(storage)[1] ]_vars

C12_Witness ==
    /\ last.op = "reload"
    /\ last.staged >= 1
    /\ Size(Staged) = 0
    /\ planningState.mode = "planning"
    /\ planningState.visibleCourses = {"EC101"}
    /\ planningState.showAlternatives["EC101"] = "all"

C14_DetectConflictsExact ==
    last.op = "detectConflicts"
    => LET events == last.events
           minutes(t) == CASE t = t0900 -> 540 [] t = t1000 -> 600 [] t = t1130 -> 690
           eligible(i) == events[i].extendedProps.eventState \in {"enrolled", "selected", "lecture"}
           overlap(a, b) == /\ a.dayOfWeek = b.dayOfWeek
                            /\ minutes(a.startTime) < minutes(b.endTime)
                            /\ minutes(b.startTime) < minutes(a.endTime)
           partners(i, j) == /\ i # j
                             /\ eligible(i)
                             /\ eligible(j)
                             /\ events[i].extendedProps.courseId # events[j].extendedProps.courseId
                             /\ events[i].extendedProps.weekNumber = events[j].extendedProps.weekNumber
                             /\ overlap(events[i].extendedProps, events[j].extendedProps)
       IN planningState.conflictingEventIds
             = {events[i].id : i \in {k \in DOMAIN events : \E j \in DOMAIN events : partners(k, j)}}

C14_Witness ==
    /\ last.op = "detectConflicts"
    /\ Len(last.events) = 3
    /\ Cardinality(planningState.conflictingEventIds) = 2
    /\ \E i, j \in DOMAIN last.events :
          /\ last.events[i].extendedProps.courseId # last.events[j].extendedProps.courseId
          /\ last.events[i].extendedProps.eventState = "lecture"
          /\ last.events[j].extendedProps.eventState = "enrolled"
          /\ last.events[i].extendedProps.weekNumber # last.events[j].extendedProps.weekNumber
          /\ last.events[i].id \notin planningState.conflictingEventIds

\* C15: the result of detectConflicts holds the id of no event tagged 'alternative', and
\* it is the result detectConflicts gives for the list without its alternative events
C15_AlternativesNeverFlagged ==
    last.op = "detectConflicts"
    => LET events == last.events
           chosen(event) == event.extendedProps.eventState # "alternative"
       IN /\ \A i \in DOMAIN events :
                events[i].extendedProps.eventState = "alternative"
                => events[i].id \notin planningState.conflictingEventIds
          /\ detectConflicts(SelectSeq(events, chosen)) = planningState.conflictingEventIds

\* C16: the conflict count shown in the confirmation of applyChanges is a whole number,
\* the number of unordered pairs of events that the last detection pass found in conflict
C16_ConflictCountIsPairCount ==
    (last.op = "applyChanges" /\ last.asked)
    => LET events == last.events
           eligible(i) == events[i].extendedProps.eventState \in {"enrolled", "selected", "lecture"}
           conflicting(i, j) ==
               /\ i < j
               /\ eligible(i)
               /\ eligible(j)
               /\ events[i].extendedProps.courseId # events[j].extendedProps.courseId
               /\ events[i].extendedProps.weekNumber = events[j].extendedProps.weekNumber
               /\ sessionsConflict(eventSession(events[i]), eventSession(events[j]))
       IN last.count[1] =
             <<Cardinality({p \in (DOMAIN events) \X (DOMAIN events) : conflicting(p[1], p[2])}), 1>>

\* C17: for sessions whose times are well formed, sessionsConflict is true exactly when
\* the days are equal and each session starts before the other ends, the times taken as
\* minutes since midnight; so sessions on different days do not conflict, and neither do
\* sessions of one day of which one ends at the minute the other starts
C17_SessionsConflictIsHalfOpenOverlap ==
    LET minutes(t) == CASE t \in {t0900, t0900am} -> 540
                        [] t = t1000 -> 600
                        [] t = t1130 -> 690
                        [] t \in {t0230PM, t1430} -> 870
                        [] t = t1500 -> 900
        wellFormed(session) == {session.StartTime, session.EndTime} \cap {tTBA, tEmpty} = {}
        a == last.session1
        b == last.session2
    IN (last.op = "sessionsConflict" /\ wellFormed(a) /\ wellFormed(b))
       => last.result = (/\ a.DayOfWeek = b.DayOfWeek
                         /\ minutes(a.StartTime) < minutes(b.EndTime)
                         /\ minutes(b.StartTime) < minutes(a.EndTime))

\* 11:30 to 2:30 PM and 14:30 to 15:00 on one day: the first ends when the second starts
C17_Witness ==
    /\ last.op = "sessionsConflict"
    /\ last.session1 = [DayOfWeek |-> "Mon", StartTime |-> t1130, EndTime |-> t0230PM]
    /\ last.session2 = [DayOfWeek |-> "Mon", StartTime |-> t1430, EndTime |-> t1500]
    /\ ~last.result

\* C18: sessionsConflict gives the same answer for a pair of sessions in either order,
\* and detectConflicts returns the same set for every order of the events of its list
C18_OverlapSymmetricOrderFree ==
    last.op = "detectConflicts"
    => LET events == last.events
           reordered(p) == [i \in DOMAIN events |-> events[p[i]]]
       IN /\ \A i, j \in DOMAIN events :
                sessionsConflict(eventSession(events[i]), eventSession(events[j]))
                   = sessionsConflict(eventSession(events[j]), eventSession(events[i]))
          /\ \A p \in Permutations(DOMAIN events) :
                detectConflicts(reordered(p)) = planningState.conflictingEventIds

C18_Witness ==
    /\ last.op = "detectConflicts"
    /\ Len(last.events) = 3
    /\ Cardinality(planningState.conflictingEventIds) = 2
    /\ last.events[1].id \notin planningState.conflictingEventIds
    /\ sessionsConflict(eventSession(last.events[3]), eventSession(last.events[2]))

\* C19: timeToMinutes gives every 24-hour and 12-hour encoding of a time of day the same
\* value, its minutes since midnight, in 0..1439: '12:00 AM' gives 0, '12:00 PM' gives 720,
\* another hour h with PM gives (h + 12) * 60 + m, and 'HH:MM' gives HH * 60 + MM
C19_TimeToMinutesNormalizes ==
    last.op = "timeToMinutes"
    => /\ last.result = last.hours * 60 + last.minutes
       /\ last.result \in 0..1439
       /\ last.timeStr = <<"1","2",":","0","0"," ","A","M">> => last.result = 0
       /\ last.timeStr = <<"1","2",":","0","0"," ","P","M">> => last.result = 720
       /\ last.timeStr = <<"2",":","3","0"," ","P","M">> => last.result = (2 + 12) * 60 + 30
       /\ last.timeStr = <<"1","4",":","3","0">> => last.result = 14 * 60 + 30

C19_Witness ==
    /\ last.op = "timeToMinutes"
    /\ last.timeStr = <<"1","2",":","3","0"," ","A","M">>
    /\ last.result = 30

\* C20: when a time string of one of the two sessions does not parse to hours and minutes,
\* the overlap check of two sessions of one day raises an error; it does not return
\* 'no overlap'
C20_MalformedTimeRaises ==
    LET malformed(session) == {session.StartTime, session.EndTime} \cap {tTBA, tEmpty} # {}
    IN (/\ last.op = "sessionsConflict"
        /\ last.session1.DayOfWeek = last.session2.DayOfWeek
        /\ (malformed(last.session1) \/ malformed(last.session2)))
       => last.threw

\* C21: in planning mode, for a visible course of the displayed term with detail mode 'my'
\* and a non-lecture type of its baseline entry, the projection holds exactly the sessions
\* of the displayed term and week of the groups {baseline group, selected group}, the
\* selected group being the staged `to` or else the baseline group; a session is tagged
\* 'selected' if its group is the selected group and not the baseline group, else
\* 'enrolled'; none is tagged 'alternative'
C21_MySessionsProjection ==
    planningState.mode = "planning"
    => \A i \in 1..Len(courses) : \A t \in DOMAIN enrollment[courses[i].CourseCode] :
          LET c == courses[i].CourseCode
              showMode == IF c \in DOMAIN planningState.showAlternatives
                          THEN planningState.showAlternatives[c] ELSE "my"
              base == enrollment[c][t]
              sel == IF <<c, t>> \in DOMAIN Staged THEN Staged[<<c, t>>].to ELSE base
              tag(g) == IF g = sel /\ g # base THEN "selected" ELSE "enrolled"
              shown == {calendarEvents[k].extendedProps : k \in
                           {k \in DOMAIN calendarEvents :
                               /\ calendarEvents[k].extendedProps.courseId = c
                               /\ calendarEvents[k].extendedProps.groupType = t}}
              inWeek(g) == {s \in SeqToSet(groupSessions(c, t, g, currentTerm)) :
                               s.Week = currentWeek}
          IN (/\ t # "LEC"
              /\ c \in planningState.visibleCourses
              /\ currentTerm \in courses[i].Terms
              /\ showMode = "my")
             => /\ \A props \in shown :
                      /\ props.groupNumber \in {base, sel}
                      /\ props.eventState = tag(props.groupNumber)
                      /\ props.eventState # "alternative"
                /\ {<<props.groupNumber, props.dayOfWeek, props.startTime, props.endTime>> :
                       props \in shown}
                      = UNION {{<<g, s.Day, s.StartTime, s.EndTime>> : s \in inWeek(g)} :
                                  g \in {base, sel}}

C21_Witness ==
    /\ planningState.mode = "planning"
    /\ "EC101" \in planningState.visibleCourses
    /\ "EC101" \in DOMAIN planningState.showAlternatives
    /\ planningState.showAlternatives["EC101"] = "my"
    /\ <<"EC101", "CLA">> \in DOMAIN Staged
    /\ \E k \in DOMAIN calendarEvents :
          /\ calendarEvents[k].extendedProps.courseId = "EC101"
          /\ calendarEvents[k].extendedProps.eventState = "selected"
    /\ \E k \in DOMAIN calendarEvents :
          /\ calendarEvents[k].extendedProps.courseId = "EC101"
          /\ calendarEvents[k].extendedProps.eventState = "enrolled"

\* C22: in planning mode, for a visible course of the displayed term with detail mode
\* 'all' and a non-lecture type of its baseline entry, the projection holds one event per
\* session of the displayed term and week of every group of the (course, type); it is
\* tagged 'selected' if its group is the selected group and not the baseline group,
\* 'enrolled' if its group is the baseline group, else 'alternative'; a group without a
\* session in the week has no event
C22_AllSessionsProjection ==
    planningState.mode = "planning"
    => \A i \in 1..Len(courses) : \A t \in DOMAIN enrollment[courses[i].CourseCode] :
          LET c == courses[i].CourseCode
              showMode == IF c \in DOMAIN planningState.showAlternatives
                          THEN planningState.showAlternatives[c] ELSE "my"
              base == enrollment[c][t]
              sel == IF <<c, t>> \in DOMAIN Staged THEN Staged[<<c, t>>].to ELSE base
              tag(g) == IF g = sel /\ g # base THEN "selected"
                        ELSE IF g = base THEN "enrolled" ELSE "alternative"
              mine == {k \in DOMAIN calendarEvents :
                          /\ calendarEvents[k].extendedProps.courseId = c
                          /\ calendarEvents[k].extendedProps.groupType = t}
              groups == {r.GroupNumber : r \in {r \in sessionTable :
                                                    r.CourseCode = c /\ r.Type = t}}
              inWeek(g) == {s \in SeqToSet(groupSessions(c, t, g, currentTerm)) :
                               s.Week = currentWeek}
              expected == UNION {{<<g, tag(g), s.Day, s.StartTime, s.EndTime>> : s \in inWeek(g)} :
                                    g \in groups}
          IN (/\ t # "LEC"
              /\ c \in planningState.visibleCourses
              /\ currentTerm \in courses[i].Terms
              /\ showMode = "all")
             => /\ {<<calendarEvents[k].extendedProps.groupNumber,
                       calendarEvents[k].extendedProps.eventState,
                       calendarEvents[k].extendedProps.dayOfWeek,
                       calendarEvents[k].extendedProps.startTime,
                       calendarEvents[k].extendedProps.endTime>> : k \in mine} = expected
                /\ Cardinality(mine) = Cardinality(expected)

C22_Witness ==
    /\ planningState.mode = "planning"
    /\ "MA201" \in planningState.visibleCourses
    /\ "MA201" \in DOMAIN planningState.showAlternatives
    /\ planningState.showAlternatives["MA201"] = "all"
    /\ enrollment["MA201"]["CLA"] = 2
    /\ <<"MA201", "CLA">> \in DOMAIN Staged
    /\ \E k \in DOMAIN calendarEvents :
          /\ calendarEvents[k].extendedProps.courseId = "MA201"
          /\ calendarEvents[k].extendedProps.groupNumber = 1
          /\ calendarEvents[k].extendedProps.eventState = "selected"
    /\ \E k \in DOMAIN calendarEvents :
          /\ calendarEvents[k].extendedProps.courseId = "EC101"
          /\ calendarEvents[k].extendedProps.eventState = "alternative"

\* C23: the planning projection holds no event of a course whose visibility flag is off,
\* and holds, tagged 'lecture', every lecture session of the displayed term and week of
\* each visible course, whatever its detail mode and staged changes; the viewing
\* projection holds the lecture sessions of every course of the term, whatever the flags
C23_VisibilityAndLectures ==
    LET lectures(c) == {s \in SeqToSet(groupSessions(c, "LEC", enrollment[c]["LEC"], currentTerm)) :
                           s.Week = currentWeek}
        shownLectures(c) ==
            {<<calendarEvents[k].extendedProps.dayOfWeek,
               calendarEvents[k].extendedProps.startTime,
               calendarEvents[k].extendedProps.endTime>> : k \in
                  {k \in DOMAIN calendarEvents :
                      /\ calendarEvents[k].extendedProps.courseId = c
                      /\ calendarEvents[k].extendedProps.groupType = "LEC"
                      /\ calendarEvents[k].extendedProps.eventState = "lecture"}}
        allLecturesShown(c) == shownLectures(c) = {<<s.Day, s.StartTime, s.EndTime>> : s \in lectures(c)}
        inTerm == {courses[i].CourseCode : i \in {i \in 1..Len(courses) :
                                                      currentTerm \in courses[i].Terms}}
    IN /\ planningState.mode = "planning"
          => /\ \A k \in DOMAIN calendarEvents :
                   calendarEvents[k].extendedProps.courseId \in planningState.visibleCourses
             /\ \A c \in inTerm \cap planningState.visibleCourses : allLecturesShown(c)
       /\ planningState.mode = "viewing"
          => \A c \in inTerm : allLecturesShown(c)

C23_Witness ==
    /\ planningState.mode = "planning"
    /\ currentTerm = "AT"
    /\ planningState.visibleCourses = {"MA201"}
    /\ planningState.showAlternatives["MA201"] = "all"
    /\ <<"MA201", "CLA">> \in DOMAIN Staged
    /\ \E k \in DOMAIN calendarEvents : calendarEvents[k].extendedProps.eventState = "lecture"

\* C24: in viewing mode the projection of the displayed term and week has the (event id,
\* display state) pairs of the planning projection with every course visible, every detail
\* mode 'my' and no staged change; its events are of baseline groups only, tagged
\* 'lecture' for lectures and 'enrolled' otherwise, whatever staged changes and
\* preferences an earlier planning episode left in the PlanningState
C24_ViewingIsPlainPlanning ==
    planningState.mode = "viewing"
    => LET pairs(events) == {<<events[k].id, events[k].extendedProps.eventState>> :
                                k \in DOMAIN events}
           plain == [mode |-> "planning",
                     stagedChanges |-> EmptyMap,
                     visibleCourses |-> CourseCodes,
                     showAlternatives |-> [c \in CourseCodes |-> "my"],
                     conflictingEventIds |-> {}]
       IN /\ pairs(calendarEvents)
                = pairs(PS_projectEvents(plain, enrollment, currentTerm, currentWeek))
          /\ \A k \in DOMAIN calendarEvents :
                LET props == calendarEvents[k].extendedProps
                IN /\ props.groupNumber = enrollment[props.courseId][props.groupType]
                   /\ props.eventState = IF props.groupType = "LEC" THEN "lecture"
                                          ELSE "enrolled"

C24_Witness ==
    /\ planningState.mode = "viewing"
    /\ Size(Staged) > 0
    /\ enrollment["EC101"]["CLA"] = 2
    /\ \E k \in DOMAIN calendarEvents :
          /\ calendarEvents[k].extendedProps.courseId = "EC101"
          /\ calendarEvents[k].extendedProps.groupNumber = 2
          /\ calendarEvents[k].extendedProps.eventState = "enrolled"
    /\ \E k \in DOMAIN calendarEvents : calendarEvents[k].extendedProps.eventState = "lecture"

\* C25: whenever the mode is 'planning' and a user action can be processed, the conflict
\* set of the PlanningState is detectConflicts of the projection of the current baseline,
\* staged changes, preferences and displayed term and week
C25_ConflictSetIsCurrent ==
    planningState.mode = "planning"
    => planningState.conflictingEventIds
          = detectConflicts(PS_projectEvents(planningState, enrollment, currentTerm, currentWeek))

C25_Witness ==
    /\ planningState.mode = "planning"
    /\ last.op = "click"
    /\ last.callback = "reload"
    /\ Size(Staged) = 1
    /\ planningState.conflictingEventIds # {}

\* C26: in a planning projection different events have different ids, and an event has
\* the conflict mark only if it overlaps (same week, same day, each starts before the
\* other ends) an eligible event of a different course
C26_IdsDistinctMarksExact ==
    planningState.mode = "planning"
    => /\ \A i, j \in DOMAIN calendarEvents :
             i # j => calendarEvents[i].id # calendarEvents[j].id
       /\ \A i \in DOMAIN calendarEvents :
             "event-conflict" \in SeqToSet(calendarEvents[i].classNames)
             => \E j \in DOMAIN calendarEvents :
                   /\ calendarEvents[j].extendedProps.eventState
                         \in {"enrolled", "selected", "lecture"}
                   /\ calendarEvents[j].extendedProps.courseId
                         # calendarEvents[i].extendedProps.courseId
                   /\ calendarEvents[j].extendedProps.weekNumber
                         = calendarEvents[i].extendedProps.weekNumber
                   /\ sessionsConflict(eventSession(calendarEvents[i]),
                                       eventSession(calendarEvents[j]))

\* C27: in planning mode with a staged change, when the eligible events of the projection
\* other than those of a baseline group that a staged change replaces hold no two events
\* of different courses that overlap, the projection flags no event as conflicting and the
\* conflict set, on which applyChanges asks for confirmation, is empty
C27_ConflictsClearWhenResolved ==
    LET props(k) == calendarEvents[k].extendedProps
        replaced(k) == /\ props(k).eventState = "enrolled"
                       /\ <<props(k).courseId, props(k).groupType>> \in DOMAIN Staged
        remaining == {k \in DOMAIN calendarEvents :
                         /\ props(k).eventState \in {"enrolled", "selected", "lecture"}
                         /\ ~replaced(k)}
    IN (/\ planningState.mode = "planning"
        /\ Size(Staged) >= 1
        /\ \A i, j \in remaining :
              (/\ props(i).courseId # props(j).courseId
               /\ props(i).weekNumber = props(j).weekNumber)
              => ~sessionsConflict(eventSession(calendarEvents[i]),
                                   eventSession(calendarEvents[j])))
       => /\ planningState.conflictingEventIds = {}
          /\ \A k \in DOMAIN calendarEvents :
                "event-conflict" \notin SeqToSet(calendarEvents[k].classNames)

\* C28: a hidden course is out of conflict detection: in planning mode, whenever a step
\* is taken, no event of a hidden course is projected or in the conflict set and nothing
\* is flagged unless two eligible events of visible courses overlap, and when the step is
\* an applyChanges that asks for confirmation, two eligible events of visible courses
\* overlap in the projection it is called on
C28_HiddenCourseNotDetected ==
  [][
    LET props(k) == calendarEvents[k].extendedProps
        eligible == {k \in DOMAIN calendarEvents :
                        props(k).eventState \in {"enrolled", "selected", "lecture"}}
        visibleOverlap ==
            \E i, j \in eligible :
                /\ props(i).courseId # props(j).courseId
                /\ props(i).weekNumber = props(j).weekNumber
                /\ sessionsConflict(eventSession(calendarEvents[i]),
                                    eventSession(calendarEvents[j]))
        hiddenOut ==
            planningState.mode = "planning"
            => /\ \A k \in DOMAIN calendarEvents :
                     props(k).courseId \in planningState.visibleCourses
               /\ \A id \in planningState.conflictingEventIds :
                     id[1] \in planningState.visibleCourses
               /\ ~visibleOverlap
                  => /\ planningState.conflictingEventIds = {}
                     /\ \A k \in DOMAIN calendarEvents :
                           "event-conflict" \notin SeqToSet(calendarEvents[k].classNames)
    IN /\ hiddenOut
       /\ (last'.op = "apply" /\ last'.asked) => visibleOverlap
  ]_vars

\* a hidden course's committed class overlaps the visible course's one, and applyChanges
\* committed a change without asking
C28_Witness ==
    /\ planningState.mode = "planning"
    /\ currentTerm = "AT"
    /\ currentWeek = 2
    /\ planningState.visibleCourses = {"EC101"}
    /\ last.op = "apply"
    /\ last.success
    /\ ~last.asked
    /\ \E a \in SeqToSet(weekSessionsOf(courses[1], "CLA", enrollment["EC101"]["CLA"], "AT", 2)),
          b \in SeqToSet(weekSessionsOf(courses[2], "CLA", enrollment["MA201"]["CLA"], "AT", 2)) :
          sessionsConflict([DayOfWeek |-> a.Day, StartTime |-> a.StartTime,
                            EndTime |-> a.EndTime, Week |-> a.Week],
                           [DayOfWeek |-> b.Day, StartTime |-> b.StartTime,
                            EndTime |-> b.EndTime, Week |-> b.Week])
    /\ planningState.conflictingEventIds = {}

\* C29: in planning mode, while no preferences were ever saved and no visibility or
\* detail switch was ever used, every course enrolled in the displayed term is visible,
\* and is projected in every week in which its enrolled lecture group has a session
C29_EveryTermCourseVisible ==
    (/\ planningState.mode = "planning"
     /\ loadPlanningState(storage) = <<>>
     /\ switchUses = 0)
    => \A c \in SeqToSet(getEnrolledCoursesForTerm(currentTerm)) :
          /\ c.CourseCode \in planningState.visibleCourses
          /\ weekSessionsOf(c, "LEC", enrollment[c.CourseCode]["LEC"],
                            currentTerm, currentWeek) # <<>>
             => \E k \in DOMAIN calendarEvents :
                   calendarEvents[k].extendedProps.courseId = c.CourseCode

\* C30: in a planning projection a tutorial event is tagged 'selected' exactly when a
\* staged change of its (course, type) has its group as `to` and that group is not the
\* baseline group; the 'selected' events of a (course, type) are of one group and its
\* 'enrolled' events are of the baseline group; and the projection right after a
\* successful applyChanges has no 'selected' event
C30_SelectedIffStaged ==
    LET props(k) == calendarEvents[k].extendedProps
        key(k) == <<props(k).courseId, props(k).groupType>>
        tutorials == {k \in DOMAIN calendarEvents : props(k).groupType # "LEC"}
    IN planningState.mode = "planning"
       => /\ \A k \in tutorials :
                props(k).eventState = "selected"
                <=> /\ key(k) \in DOMAIN Staged
                    /\ Staged[key(k)].to = props(k).groupNumber
                    /\ props(k).groupNumber # Baseline(key(k))
          /\ \A k \in DOMAIN calendarEvents :
                props(k).groupType = "LEC" => props(k).eventState = "lecture"
          /\ \A i, j \in tutorials :
                (/\ key(i) = key(j)
                 /\ props(i).eventState = "selected"
                 /\ props(j).eventState = "selected")
                => props(i).groupNumber = props(j).groupNumber
          /\ \A k \in tutorials :
                props(k).eventState = "enrolled" => props(k).groupNumber = Baseline(key(k))
          /\ (last.op = "apply" /\ last.success)
             => \A k \in DOMAIN calendarEvents : props(k).eventState # "selected"

\* applyChanges committed a staged change in a week in which the group it made the
\* baseline has a session, now shown as enrolled
C30_Witness ==
    /\ planningState.mode = "planning"
    /\ last.op = "apply"
    /\ last.success
    /\ last.commits = 1
    /\ \E key \in DOMAIN last.handed :
          /\ Baseline(key) = last.handed[key].to
          /\ \E k \in DOMAIN calendarEvents :
                /\ calendarEvents[k].extendedProps.courseId = key[1]
                /\ calendarEvents[k].extendedProps.groupType = key[2]
                /\ calendarEvents[k].extendedProps.groupNumber = last.handed[key].to
                /\ calendarEvents[k].extendedProps.eventState = "enrolled"

\* C31: no staged change is of a lecture, and a click on a lecture event of the
\* projection leaves the staged changes as they were
C31_LecturesNotSubstitutable ==
    [][/\ \A key \in DOMAIN planningState'.stagedChanges : key[2] # "LEC"
       /\ (last'.op = "click" /\ last'.clicked[1].groupType = "LEC")
          => planningState'.stagedChanges = Staged]_vars

\* a lecture was clicked in planning mode while a change was staged
C31_Witness ==
    /\ planningState.mode = "planning"
    /\ last.op = "click"
    /\ last.clicked[1].groupType = "LEC"
    /\ last.clicked[1].eventState = "lecture"
    /\ Size(Staged) >= 1

\* C32: a step of the visibility or of the detail switch leaves the mode, the staged
\* changes and the enrollment baseline as they were and changes at most one of the
\* visibility set and the detail-mode map, and a successful applyChanges hands every
\* staged change to the commit callback, those of hidden courses included
C32_SwitchesArePreferencesOnly ==
    [][/\ switchUses' # switchUses
          => /\ planningState'.mode = planningState.mode
             /\ planningState'.stagedChanges = Staged
             /\ enrollment' = enrollment
             /\ \/ planningState'.visibleCourses = planningState.visibleCourses
                \/ planningState'.showAlternatives = planningState.showAlternatives
       /\ (last'.op = "apply" /\ last'.success) => last'.handed = Staged]_vars

\* applyChanges committed a staged change of a course that is hidden
C32_Witness ==
    /\ planningState.mode = "planning"
    /\ last.op = "apply"
    /\ last.success
    /\ last.commits = 1
    /\ \E key \in DOMAIN last.handed : key[1] \notin planningState.visibleCourses

\* C33: a projection, in viewing or in planning mode, of the courses that
\* getEnrolledCoursesForTerm returns does not throw, whatever colour map the storage held
C33_ProjectionNeverThrows ==
    last.op \in {"getEventsForWeek", "getEventsForPlanningMode"} => ~last.threw

\* C34: when the direct applyChanges commits n >= 1 staged changes, its success message
\* reports n
C34_DirectApplyReportsCount ==
    (last.op = "applyChanges" /\ last.committed # <<>>)
    => last.alert = <<"Successfully applied", Size(last.committed[1])>>

C36_WeekInRange ==
    /\ configTerm(currentTerm) # <<>>
    /\ currentWeek # <<>>
    /\ currentWeek[1] \in 1..configTerm(currentTerm)[1].totalWeeks

\* Today was pressed on a date after the last week of the last term, from another week
C36_Witness ==
    /\ last.op = "todayBtn"
    /\ \A i \in DOMAIN CONFIG_TERMS :
          last.today[1] >= newDate(CONFIG_TERMS[i].weekOneStart) + 7 * CONFIG_TERMS[i].totalWeeks
    /\ currentTerm = "AT"
    /\ currentWeek = <<1>>

\* C37: the start of every week loaded is a Monday, and a session of a day from Mon to
\* Fri is placed on that day of the week
C37_WeekStartsOnMonday ==
    last.weekStart # <<>>
    => /\ dayOfWeek(last.weekStart[1]) = "Mon"
       /\ \A day \in {"Mon", "Tue", "Wed", "Thu", "Fri"} :
             dayOfWeek(sessionDate(last.weekStart[1], day)) = day

\* C38: when replaceAllCourses returns an error, the rows of the user in
\* enrollment_courses are those of before the call
C38_ReplaceAllOrNothing ==
    (last.op = "returned" /\ last.error # <<>>)
    => {r \in last.rows : r.user_id = "user-1"} = last.before

====
